---------------------------- MODULE Spec2Model ----------------------------
(***************************************************************************)
(* Jira ticket viewer: the enhanced client's HTTP retry loop, the ticket   *)
(* table's filter / search / selection handlers, the status-transition     *)
(* actions, the license subsystem, the comment monitor, the reminder       *)
(* manager, assign-to-me, ticket creation and the quick-mention list, as   *)
(* state machines.                                                         *)
(*                                                                         *)
(* Text (status names, transition names, license keys) is a sequence of    *)
(* character codes, so that lower-casing, substring search, base64 and     *)
(* JSON decoding are computed and not assumed.                             *)
(***************************************************************************)
EXTENDS Integers, Sequences, FiniteSets, TLC

VARIABLES
    \* ---- JiraTicketGUI_enhanced.make_jira_request (one call in progress)
    req_pc,          \* "idle" | "attempt" | "sleep" | "returned"
    req_method,      \* HTTP method of the call
    attempt,         \* loop variable of `for attempt in range(max_retries)`
    http_calls,      \* requests.get/post/put calls made by this call
    sleeps,          \* time.sleep(2) calls made by this call
    outcomes,        \* how each HTTP attempt of this call ended, in order
    result,          \* value returned to the caller
    error_dialog,    \* title passed to show_copyable_error, or "none"
    \* ---- JiraTicketGUI.JiraTicketViewer (baseline shell), ticket table
    b_has_tickets,       \* whether self.all_tickets has been assigned
    b_all_tickets,       \* self.all_tickets
    b_filtered_tickets,  \* self.filtered_tickets
    b_tree,              \* rows of self.tree, one per ticket, in order
    b_ticket_filter,     \* self.ticket_filter_var
    b_issue_type,        \* self.issue_type_var
    b_hide_completed,    \* self.hide_completed_var
    b_loaded,            \* the issue list the last reload delivered
    b_last,              \* the handler that ran last: "none" | "load" | "filter"
    \* ---- JiraTicketGUI_enhanced.JiraTicketViewer (enhanced shell)
    e_all_tickets,       \* self.all_tickets (<<>> also stands for "not set")
    e_filtered_tickets,  \* self.filtered_tickets
    e_tree,              \* rows of self.tree
    e_ticket_filter,     \* self.ticket_filter_var
    e_hide_completed,    \* self.hide_completed_var
    e_loaded,            \* the issue list the last reload delivered
    e_searched,          \* a free-text search replaced the rows since that reload
    e_last,              \* "none" | "load" | "filter" | "search" | "restore"
    e_selection,         \* selected row of self.tree (0: empty selection)
    e_current_ticket,    \* self.current_ticket (0: None)
    e_actions_enabled,   \* state of every button of self.all_action_buttons
    e_toolbar_visible,   \* self.context_toolbar is gridded
    e_details_text,      \* ticket whose details self.details_text shows (0: empty)
    \* ---- close_ticket / resolve_ticket / open_ticket, last handler run
    t_shell,             \* "baseline" | "enhanced" | "modular"
    t_action,            \* "none" | "close" | "resolve" | "open"
    t_get_ok,            \* the GET issue/{key}/transitions returned data
    t_transitions,       \* transitions_data['transitions'], by name
    t_asked,             \* askyesnocancel("Choose Transition", ...) was shown
    t_choice,            \* its answer: "yes" | "no" | "cancel" ("none": not asked)
    t_posted,            \* transition sent in the POST (0: no POST)
    t_dialog,            \* message box the handler ended with
    t_options,           \* transition names listed in that message box
    \* ---- a license key on its way from the generator to a validator
    k_stage,             \* "none" | "generated" | "changed" | "validated"
    k_key,               \* the key text
    k_issued,            \* the key as generate_license_key returned it
    k_host,              \* host the validator runs on
    k_class,             \* class whose validate_license_key ran
    k_result,            \* what validate_license_key returned
    \* ---- the enhanced shell's license handling on one machine
    l_class,             \* class of self.license_manager
    l_screen,            \* "closed" | "dialog" (activation dialog) | "main"
    l_today,             \* the day datetime.now() shows
    l_license,           \* vault entry "license_key" (<<>>: none)
    l_trial_started,     \* vault entry "trial_started" is present
    l_user_email,        \* self.user_email, as an index of Emails (0: "")
    l_message,           \* the last message box, or the exception raised
    l_trials_saved,      \* trial licenses generated and saved so far
    \* ---- comment_monitor.CommentMonitor and the backend's comments
    m_stage,             \* "constructed" | "monitoring" (the loop runs)
    m_all_tickets,       \* parent_app.all_tickets, as ticket keys in order
    m_server,            \* the backend's comments of every ticket, in order
    m_next_id,           \* id the backend gives the next comment
    m_known,             \* self.known_comments: ticket key -> comment ids
    m_new_comments,      \* self.new_comments, the pending list
    m_found,             \* new_comments_found of the last scan
    m_listing,           \* lines of the notification the last scan raised
    m_scans,             \* scans made so far (the first is the baseline)
    m_scanned,           \* all_tickets as the last scan saw it
    m_at_scan,           \* the backend's comments when the last scan ran
    m_seen,              \* what _get_ticket_comments returned in the last scan
    m_reported,          \* ids of the comments some check found new
    \* ---- reminder_manager.ReminderManager
    r_now,               \* the hour datetime.now() shows
    r_reminders,         \* self.reminders
    r_file,              \* the reminders of reminders.json
    r_times,             \* per reminder: the hours it was given (due, snooze)
    r_due,               \* ids of the last get_due_reminders() result
    r_fresh,             \* nothing has happened since r_due was computed
    \* ---- JiraTicketGUI_enhanced.assign_to_me (one click at a time)
    a_pc,                \* "idle" | "method1" | "method2" | "method3" | "done"
    a_current_ticket,    \* key of self.current_ticket (0: none selected)
    a_cached,            \* per ticket: assignee of the cached ticket object
    a_rows,              \* per ticket: assignee column of its table row
    a_server,            \* per ticket: assignee on the backend
    a_sent,              \* the requests this click has sent, in order
    a_results,           \* what make_jira_request returned for each of them
    a_dialogs,           \* titles of the windows this click has raised
    a_reloads,           \* load_all_tickets_threaded calls of this click
    a_clicks,            \* clicks so far
    \* ---- JiraTicketGUI_enhanced.create_ticket (the dialog's Create button)
    c_pc,                \* "dialog" | "method1" | "method2" | "method3" | "comment" | "finish" | "done"
    c_description,       \* description, stripped, of the click in progress
    c_sent,              \* the requests this click has sent, in order
    c_results,           \* what make_jira_request returned for each of them
    c_dialogs,           \* message boxes and error windows of this click
    c_backend,           \* the tickets created on the backend, in order
    c_window_open,       \* the dialog is open
    c_clicks,            \* clicks on Create so far
    \* ---- user_management.UserManagementSystem and the quick-mentions file
    q_file,              \* jira_quick_mentions.json: whether it exists, its array
    q_default,           \* the list object config.DEFAULT_QUICK_MENTIONS
    q_mentions,          \* self.quick_mentions
    q_aliased,           \* self.quick_mentions is the DEFAULT_QUICK_MENTIONS object
    q_dialog,            \* "none" | "manage" | "team" (Select Team Members)
    q_message,           \* the last message box ("none": none)
    q_readd,             \* the last Add entered a pair the list already held
    q_mutated,           \* the list was changed since this manager loaded it
    q_steps,             \* handlers run so far
    \* ---- search_filter.SearchFilterManager behind the modular shell
    s_all_tickets,       \* self.all_tickets
    s_tree,              \* rows of the ticket table, one per ticket, in order
    s_ticket_filter,     \* self.ticket_filter_var
    s_issue_type,        \* self.issue_type_var
    s_hide_completed,    \* self.hide_completed_var
    s_status,            \* the status bar: "all" | "filtered" | "none"
    s_last,              \* the handler that ran last: "none" | "load" | "filter"
    \* ---- failure reporting of three operations (upload, mention save, license save)
    f_attachments,       \* self.attachments: the files picked, each by what its upload will meet
    f_dialogs,           \* titles of the dialogs the last handler opened, in order
    f_printed,           \* lines the last handler only printed to the console
    f_failed,            \* the operations that failed inside the last handler
    f_handler,           \* the handler that ran last
    \* ---- row selection and the background comment fetch (baseline shell)
    d_current_ticket,    \* self.current_ticket, 0 for None
    d_details,           \* the ticket whose details self.details_text shows, 0 for none
    d_comments,          \* the ticket whose comments self.comments_text shows, 0 for "Loading comments..."
    d_threads,           \* per ticket_key, the load_full_ticket_details threads still fetching
    d_after,             \* update_comments callbacks queued on the UI loop, by ticket_key
    d_selections,        \* number of row selections so far
    \* ---- add_comment_to_ticket over make_jira_request, and the backend
    w_pc,                \* "idle" | "attempt" | "returned"
    w_method,            \* the payload being posted: Method 1, 2 or 3
    w_attempt,           \* loop index of make_jira_request for that payload
    w_stored,            \* comments the backend stored for the current operator action
    w_result,            \* "pending", or what add_comment_to_ticket returned
    w_actions,           \* operator actions so far
    \* ---- which thread touches which widget (search, close, reload workers)
    x_running,           \* the worker threads alive: subset of Workers
    x_after,             \* callbacks queued on the UI loop with root.after, by widget
    x_touched,           \* every widget mutation so far, as <<widget, thread>>
    \* ---- what the UI thread is doing (select, assign, close handlers)
    g_handler,           \* the handler running on the UI thread, "mainloop" when none
    g_step,              \* the request the handler is at
    g_attempt,           \* loop index of make_jira_request for that request
    g_asleep,            \* TRUE while the UI thread is inside time.sleep(2)
    g_http,              \* HTTP requests made on the UI thread by the current or last handler
    g_sleeps,            \* time.sleep(2) calls on the UI thread by the current or last handler
    \* ---- the refresh button across reloads (enhanced shell)
    n_refresh_btn,       \* state of self.refresh_btn: "normal" | "disabled"
    n_status,            \* text of self.status_label, by kind
    n_threads,           \* load_all_tickets threads still waiting for the answer
    n_after,             \* callbacks queued on the UI loop with root.after(0, ...)
    n_reloads,           \* reloads started so far
    \* ---- the HTML viewer window and its comment-loading threads
    v_window,            \* self.html_viewer_window: "None" | "open"
    v_current_ticket,    \* the viewer's self.current_ticket, 0 for None
    v_comments,          \* ticket whose comments the view tab shows, 0 for "Loading comments..."
    v_threads,           \* per ticket_key, the do_load threads still fetching
    v_after,             \* update_comments callbacks queued on the window, by ticket_key
    v_died,              \* threads that ended with an uncaught exception
    v_dialogs,           \* error dialogs opened for a worker's exception
    v_updates,           \* update_html_viewer calls so far
    \* ---- life cycle of the comment monitor's polling threads
    p_monitoring,        \* self.monitoring
    p_loop,              \* per thread started, where its _monitor_loop stands
    p_checks,            \* per thread, the _check_for_new_comments calls it has begun
    p_calls              \* start_monitoring / stop_monitoring calls so far

httpVars == <<req_pc, req_method, attempt, http_calls, sleeps, outcomes,
              result, error_dialog>>

baseVars == <<b_has_tickets, b_all_tickets, b_filtered_tickets, b_tree,
              b_ticket_filter, b_issue_type, b_hide_completed, b_loaded, b_last>>

enhVars == <<e_all_tickets, e_filtered_tickets, e_tree, e_ticket_filter,
             e_hide_completed, e_loaded, e_searched, e_last,
             e_selection, e_current_ticket, e_actions_enabled,
             e_toolbar_visible, e_details_text>>

transVars == <<t_shell, t_action, t_get_ok, t_transitions, t_asked, t_choice,
               t_posted, t_dialog, t_options>>

keyVars == <<k_stage, k_key, k_issued, k_host, k_class, k_result>>

licVars == <<l_class, l_screen, l_today, l_license, l_trial_started,
             l_user_email, l_message, l_trials_saved>>

monVars == <<m_stage, m_all_tickets, m_server, m_next_id, m_known,
             m_new_comments, m_found, m_listing, m_scans, m_scanned,
             m_at_scan, m_seen, m_reported>>

remVars == <<r_now, r_reminders, r_file, r_times, r_due, r_fresh>>

asgVars == <<a_pc, a_current_ticket, a_cached, a_rows, a_server, a_sent,
             a_results, a_dialogs, a_reloads, a_clicks>>

crtVars == <<c_pc, c_description, c_sent, c_results, c_dialogs, c_backend,
             c_window_open, c_clicks>>

qmVars == <<q_file, q_default, q_mentions, q_aliased, q_dialog, q_message,
            q_readd, q_mutated, q_steps>>

sfVars == <<s_all_tickets, s_tree, s_ticket_filter, s_issue_type,
            s_hide_completed, s_status, s_last>>

failVars == <<f_attachments, f_dialogs, f_printed, f_failed, f_handler>>

selVars == <<d_current_ticket, d_details, d_comments, d_threads, d_after, d_selections>>

cmtVars == <<w_pc, w_method, w_attempt, w_stored, w_result, w_actions>>

thrVars == <<x_running, x_after, x_touched>>

uiVars == <<g_handler, g_step, g_attempt, g_asleep, g_http, g_sleeps>>

relVars == <<n_refresh_btn, n_status, n_threads, n_after, n_reloads>>

viewVars == <<v_window, v_current_ticket, v_comments, v_threads, v_after, v_died, v_dialogs, v_updates>>

loopVars == <<p_monitoring, p_loop, p_checks, p_calls>>

vars == <<httpVars, baseVars, enhVars, transVars, keyVars, licVars, monVars, remVars, asgVars, crtVars, qmVars, sfVars, failVars, selVars, cmtVars, thrVars, uiVars, relVars, viewVars, loopVars>>

\* What the steps of one part leave alone: every other part.
exceptHttp == <<baseVars, enhVars, transVars, keyVars, licVars, monVars, remVars, asgVars, crtVars, qmVars, sfVars, failVars, selVars, cmtVars, thrVars, uiVars, relVars, viewVars, loopVars>>
exceptBase == <<httpVars, enhVars, transVars, keyVars, licVars, monVars, remVars, asgVars, crtVars, qmVars, sfVars, failVars, selVars, cmtVars, thrVars, uiVars, relVars, viewVars, loopVars>>
exceptEnh == <<httpVars, baseVars, transVars, keyVars, licVars, monVars, remVars, asgVars, crtVars, qmVars, sfVars, failVars, selVars, cmtVars, thrVars, uiVars, relVars, viewVars, loopVars>>
exceptTrans == <<httpVars, baseVars, enhVars, keyVars, licVars, monVars, remVars, asgVars, crtVars, qmVars, sfVars, failVars, selVars, cmtVars, thrVars, uiVars, relVars, viewVars, loopVars>>
exceptKey == <<httpVars, baseVars, enhVars, transVars, licVars, monVars, remVars, asgVars, crtVars, qmVars, sfVars, failVars, selVars, cmtVars, thrVars, uiVars, relVars, viewVars, loopVars>>
exceptLic == <<httpVars, baseVars, enhVars, transVars, keyVars, monVars, remVars, asgVars, crtVars, qmVars, sfVars, failVars, selVars, cmtVars, thrVars, uiVars, relVars, viewVars, loopVars>>
exceptMon == <<httpVars, baseVars, enhVars, transVars, keyVars, licVars, remVars, asgVars, crtVars, qmVars, sfVars, failVars, selVars, cmtVars, thrVars, uiVars, relVars, viewVars, loopVars>>
exceptRem == <<httpVars, baseVars, enhVars, transVars, keyVars, licVars, monVars, asgVars, crtVars, qmVars, sfVars, failVars, selVars, cmtVars, thrVars, uiVars, relVars, viewVars, loopVars>>
exceptAsg == <<httpVars, baseVars, enhVars, transVars, keyVars, licVars, monVars, remVars, crtVars, qmVars, sfVars, failVars, selVars, cmtVars, thrVars, uiVars, relVars, viewVars, loopVars>>
exceptCrt == <<httpVars, baseVars, enhVars, transVars, keyVars, licVars, monVars, remVars, asgVars, qmVars, sfVars, failVars, selVars, cmtVars, thrVars, uiVars, relVars, viewVars, loopVars>>
exceptQm == <<httpVars, baseVars, enhVars, transVars, keyVars, licVars, monVars, remVars, asgVars, crtVars, sfVars, failVars, selVars, cmtVars, thrVars, uiVars, relVars, viewVars, loopVars>>
exceptSf == <<httpVars, baseVars, enhVars, transVars, keyVars, licVars, monVars, remVars, asgVars, crtVars, qmVars, failVars, selVars, cmtVars, thrVars, uiVars, relVars, viewVars, loopVars>>
exceptFail == <<httpVars, baseVars, enhVars, transVars, keyVars, licVars, monVars, remVars, asgVars, crtVars, qmVars, sfVars, selVars, cmtVars, thrVars, uiVars, relVars, viewVars, loopVars>>
exceptSel == <<httpVars, baseVars, enhVars, transVars, keyVars, licVars, monVars, remVars, asgVars, crtVars, qmVars, sfVars, failVars, cmtVars, thrVars, uiVars, relVars, viewVars, loopVars>>
exceptCmt == <<httpVars, baseVars, enhVars, transVars, keyVars, licVars, monVars, remVars, asgVars, crtVars, qmVars, sfVars, failVars, selVars, thrVars, uiVars, relVars, viewVars, loopVars>>
exceptThr == <<httpVars, baseVars, enhVars, transVars, keyVars, licVars, monVars, remVars, asgVars, crtVars, qmVars, sfVars, failVars, selVars, cmtVars, uiVars, relVars, viewVars, loopVars>>
exceptUi == <<httpVars, baseVars, enhVars, transVars, keyVars, licVars, monVars, remVars, asgVars, crtVars, qmVars, sfVars, failVars, selVars, cmtVars, thrVars, relVars, viewVars, loopVars>>
exceptRel == <<httpVars, baseVars, enhVars, transVars, keyVars, licVars, monVars, remVars, asgVars, crtVars, qmVars, sfVars, failVars, selVars, cmtVars, thrVars, uiVars, viewVars, loopVars>>
exceptView == <<httpVars, baseVars, enhVars, transVars, keyVars, licVars, monVars, remVars, asgVars, crtVars, qmVars, sfVars, failVars, selVars, cmtVars, thrVars, uiVars, relVars, loopVars>>
exceptLoop == <<httpVars, baseVars, enhVars, transVars, keyVars, licVars, monVars, remVars, asgVars, crtVars, qmVars, sfVars, failVars, selVars, cmtVars, thrVars, uiVars, relVars, viewVars>>


-----------------------------------------------------------------------------
(* make_jira_request                                                       *)

max_retries == 3

Methods == {"GET", "POST", "PUT", "DELETE"}

\* How one HTTP attempt can end: a response with a status code and a body,
\* requests.exceptions.Timeout, or another RequestException (connection).
StatusCodes == {200, 400, 404, 500, 503}
Outcomes ==
    [kind : {"response"}, status : StatusCodes, body : {"json", "empty", "garbage"}]
    \cup [kind : {"timeout", "connection"}, status : {0}, body : {"empty"}]

IsTimeout(o)    == o.kind = "timeout"
IsConnection(o) == o.kind = "connection"
IsHTTPError(o)  == o.kind = "response" /\ o.status >= 400
Is5xx(o)        == o.kind = "response" /\ o.status >= 500
Is4xx(o)        == o.kind = "response" /\ o.status >= 400 /\ o.status < 500

ShouldRetry_anyError(o, att) ==
    (IsTimeout(o) \/ IsHTTPError(o) \/ IsConnection(o)) /\ att < max_retries - 1

ShouldRetry_from400(o, att) ==
    \/ IsTimeout(o) /\ att # max_retries - 1
    \/ IsHTTPError(o) /\ o.status >= 400 /\ att < max_retries - 1

\* The two `time.sleep(2); continue` branches: a Timeout that is not on the
\* last attempt, and an HTTPError with status >= 500 before the last attempt.
ShouldRetry(o, att) ==
    \/ IsTimeout(o) /\ att # max_retries - 1
    \/ IsHTTPError(o) /\ o.status >= 500 /\ att < max_retries - 1

\* Value returned by the attempt when it does not retry.
ReturnValue(o) ==
    IF o.kind = "response" /\ o.status < 400
    THEN CASE o.body = "json"    -> "json"
           [] o.body = "empty"   -> "success"
           [] OTHER              -> "None"       \* response.json() raises
    ELSE "None"

\* Title of the error dialog raised by the attempt when it does not retry.
ErrorTitle(o) ==
    CASE IsTimeout(o)                          -> "Timeout Error"
      [] IsHTTPError(o) \/ IsConnection(o)     -> "API Error"
      [] o.kind = "response" /\ o.body = "garbage" -> "API Error"
      [] OTHER                                 -> "none"

HttpInit ==
    /\ req_pc = "idle"
    /\ req_method = "GET"
    /\ attempt = 0
    /\ http_calls = 0
    /\ sleeps = 0
    /\ outcomes = <<>>
    /\ result = "pending"
    /\ error_dialog = "none"

\* A caller invokes make_jira_request(endpoint, method, ...).
make_jira_request(m) ==
    /\ req_pc \in {"idle", "returned"}
    /\ req_pc' = "attempt"
    /\ req_method' = m
    /\ attempt' = 0
    /\ http_calls' = 0
    /\ sleeps' = 0
    /\ outcomes' = <<>>
    /\ result' = "pending"
    /\ error_dialog' = "none"

\* The loop body for a method that is none of GET/POST/PUT: `return None`
\* before any HTTP call.
UnsupportedMethod ==
    /\ req_pc = "attempt"
    /\ req_method \notin {"GET", "POST", "PUT"}
    /\ req_pc' = "returned"
    /\ result' = "None"
    /\ UNCHANGED <<req_method, attempt, http_calls, sleeps, outcomes, error_dialog>>

\* One iteration of the loop body: the HTTP call and the handling of how it
\* ended, up to the return or up to the sleep.
HttpAttempt(o) ==
    /\ req_pc = "attempt"
    /\ req_method \in {"GET", "POST", "PUT"}
    /\ http_calls' = http_calls + 1
    /\ outcomes' = Append(outcomes, o)
    /\ IF ShouldRetry(o, attempt)
       THEN /\ req_pc' = "sleep"
            /\ UNCHANGED <<result, error_dialog>>
       ELSE /\ req_pc' = "returned"
            /\ result' = ReturnValue(o)
            /\ error_dialog' = ErrorTitle(o)
    /\ UNCHANGED <<req_method, attempt, sleeps>>

\* time.sleep(2); continue.  range(max_retries) ends the loop when no
\* iteration is left, and the function then returns None implicitly.
SleepAndContinue ==
    /\ req_pc = "sleep"
    /\ sleeps' = sleeps + 1
    /\ attempt' = attempt + 1
    /\ IF attempt + 1 < max_retries
       THEN /\ req_pc' = "attempt"
            /\ UNCHANGED result
       ELSE /\ req_pc' = "returned"
            /\ result' = "None"
    /\ UNCHANGED <<req_method, http_calls, outcomes, error_dialog>>

HttpNext ==
    \/ \E m \in Methods : make_jira_request(m) /\ UNCHANGED exceptHttp
    \/ UnsupportedMethod /\ UNCHANGED exceptHttp
    \/ \E o \in Outcomes : HttpAttempt(o) /\ UNCHANGED exceptHttp
    \/ SleepAndContinue /\ UNCHANGED exceptHttp


-----------------------------------------------------------------------------
(* Text helpers: str.lower(), str.strip(), `needle in hay`                 *)

Lower(s) == [i \in 1..Len(s) |-> IF s[i] \in 65..90 THEN s[i] + 32 ELSE s[i]]

Contains(hay, needle) ==
    \E i \in 0..(Len(hay) - Len(needle)) :
        SubSeq(hay, i + 1, i + Len(needle)) = needle

IsSpace(c) == c \in {9, 10, 11, 12, 13, 32}

Strip(s) ==
    IF \A i \in 1..Len(s) : IsSpace(s[i]) THEN <<>>
    ELSE SubSeq(s, CHOOSE i \in 1..Len(s) :
                       ~IsSpace(s[i]) /\ \A j \in 1..(i - 1) : IsSpace(s[j]),
                   CHOOSE i \in 1..Len(s) :
                       ~IsSpace(s[i]) /\ \A j \in (i + 1)..Len(s) : IsSpace(s[j]))

-----------------------------------------------------------------------------
(* Tickets the backend can return.  Ticket i has key ITS-i; its other       *)
(* fields cycle through a few values so that every filter has tickets it   *)
(* keeps and tickets it drops.                                              *)

MaxTickets == 4

TicketIds == 1..MaxTickets

user_email == "me@example.com"

Key(i) == <<73, 84, 83, 45, 48 + i>>                         \* "ITS-i"

StatusName(i) ==
    CASE i % 4 = 1 -> <<79,112,101,110>>                      \* "Open"
      [] i % 4 = 2 -> <<68,111,110,101>>                      \* "Done"
      [] i % 4 = 3 -> <<73,110,32,80,114,111,103,114,101,115,115>>  \* "In Progress"
      [] OTHER     -> <<67,108,111,115,101,100,32,45,32,68,117,112,108,105,99,97,116,101>>
                                                              \* "Closed - Duplicate"

TypeName(i) == IF i % 2 = 1 THEN "[System] Incident" ELSE "[System] Service request"

ReporterEmail(i) == IF i % 4 \in {1, 2} THEN user_email ELSE "other@example.com"

\* "" stands for fields.assignee = None
AssigneeEmail(i) ==
    CASE i % 4 = 2 -> "other@example.com"
      [] i % 4 = 3 -> user_email
      [] OTHER     -> ""

Summary(i) ==
    CASE i % 4 = 1 -> <<86,80,78,32,100,111,119,110>>         \* "VPN down"
      [] i % 4 = 2 -> <<78,101,119,32,108,97,112,116,111,112>>  \* "New laptop"
      [] i % 4 = 3 -> <<86,80,78,32,115,108,111,119>>         \* "VPN slow"
      [] OTHER     -> <<80,114,105,110,116,101,114>>          \* "Printer"

\* The issue lists a reload can deliver: the backend's tickets in key order,
\* any of them present.
RECURSIVE InOrder(_, _)
InOrder(S, n) ==
    IF n = 0 THEN <<>>
    ELSE IF n \in S THEN Append(InOrder(S, n - 1), n) ELSE InOrder(S, n - 1)

IssueLists == {InOrder(S, MaxTickets) : S \in SUBSET TicketIds}

completed_statuses ==
    << <<100,111,110,101>>,                                   \* 'done'
       <<99,108,111,115,101,100>>,                            \* 'closed'
       <<114,101,115,111,108,118,101,100>>,                   \* 'resolved'
       <<99,111,109,112,108,101,116,101>>,                    \* 'complete'
       <<99,111,109,112,108,101,116,101,100>>,                \* 'completed'
       <<102,105,110,105,115,104,101,100>> >>                 \* 'finished'

\* any(completed_status in status_name for completed_status in completed_statuses),
\* tabulated for every ticket
is_completed ==
    [i \in TicketIds |->
        \E k \in 1..Len(completed_statuses) :
            Contains(Lower(StatusName(i)), completed_statuses[k])]

-----------------------------------------------------------------------------
(* Baseline shell: update_ticket_list, filter_tickets                      *)

TicketFilters == {"My Tickets", "All Open", "Unassigned", "All Tickets"}
IssueTypeFilters == {"All", "[System] Incident", "[System] Service request"}

\* The loop body of filter_tickets: TRUE when the issue reaches
\* tickets_to_show.append(issue).
B_Keep(i, tf, itf, hide) ==
    /\ (tf = "My Tickets" => user_email \in {ReporterEmail(i), AssigneeEmail(i)})
    /\ (tf = "Unassigned" => AssigneeEmail(i) = "")
    /\ (itf # "All" => TypeName(i) = itf)
    /\ (hide => ~is_completed[i])

BaseInit ==
    /\ b_has_tickets = FALSE
    /\ b_all_tickets = <<>>
    /\ b_filtered_tickets = <<>>
    /\ b_tree = <<>>
    /\ b_ticket_filter = "My Tickets"
    /\ b_issue_type = "All"
    /\ b_hide_completed = TRUE
    /\ b_loaded = <<>>
    /\ b_last = "none"

\* update_ticket_list(issues): the rows are rebuilt from issues, and issues
\* is stored as self.all_tickets.
B_update_ticket_list(issues) ==
    /\ b_tree' = issues
    /\ b_all_tickets' = issues
    /\ b_has_tickets' = TRUE

\* load_all_tickets delivers data['issues'] to update_ticket_list on the UI
\* thread; the filter_tickets call it schedules 100 ms later is B_filter_tickets.
B_LoadDelivered(issues) ==
    /\ B_update_ticket_list(issues)
    /\ b_loaded' = issues
    /\ b_last' = "load"
    /\ UNCHANGED <<b_filtered_tickets, b_ticket_filter, b_issue_type, b_hide_completed>>

\* filter_tickets, run with the three filter widgets holding tf, itf, hide
\* (the widget is set by the operator, then its command / binding runs).
\* Before the first load self.all_tickets does not exist: the rows are
\* cleared and the loop raises AttributeError.
B_filter_tickets(tf, itf, hide) ==
    /\ b_ticket_filter' = tf
    /\ b_issue_type' = itf
    /\ b_hide_completed' = hide
    /\ b_last' = "filter"
    /\ IF b_has_tickets
       THEN LET tickets_to_show ==
                    SelectSeq(b_all_tickets, LAMBDA i : B_Keep(i, tf, itf, hide))
            IN  /\ B_update_ticket_list(tickets_to_show)
                /\ b_filtered_tickets' = tickets_to_show
       ELSE /\ b_tree' = <<>>
            /\ UNCHANGED <<b_has_tickets, b_all_tickets, b_filtered_tickets>>
    /\ UNCHANGED b_loaded

BaseNext ==
    \/ \E issues \in IssueLists : B_LoadDelivered(issues) /\ UNCHANGED exceptBase
    \/ \E tf \in TicketFilters :
           B_filter_tickets(tf, b_issue_type, b_hide_completed) /\ UNCHANGED exceptBase
    \/ \E itf \in IssueTypeFilters :
           B_filter_tickets(b_ticket_filter, itf, b_hide_completed) /\ UNCHANGED exceptBase
    \/ B_filter_tickets(b_ticket_filter, b_issue_type, ~b_hide_completed)
          /\ UNCHANGED exceptBase

-----------------------------------------------------------------------------
(* Enhanced shell: update_ticket_list, filter_tickets, search_tickets,      *)
(* on_ticket_select                                                        *)

search_placeholder ==                            \* magnifying glass, then
    <<128269,32,83,101,97,114,99,104,32,116,105,99,107,101,116,115,46,46,46>>
                                                 \* " Search tickets..."

\* Texts the operator submits in the search box.
SearchTexts ==
    { <<>>, <<32, 32>>, search_placeholder,
      <<118,112,110>>,                           \* "vpn"
      <<32,86,80,78,32>>,                        \* " VPN "
      <<105,116,115,45,50>>,                     \* "its-2"
      <<122,122,122>> }                          \* "zzz"

E_Keep(i, tf, hide) ==
    /\ (tf = "My Tickets" => user_email \in {ReporterEmail(i), AssigneeEmail(i)})
    /\ (tf = "All Open" => ~is_completed[i])
    /\ (tf = "Unassigned" => AssigneeEmail(i) = "")
    /\ (hide /\ tf # "All Open" => ~is_completed[i])

\* The tickets search_tickets keeps for the entry text: search_term is the
\* stripped text, and a ticket is kept when
\* `search_lower in key or search_lower in summary`.  Tabulated per text.
matching ==
    [text \in SearchTexts |->
        LET search_lower == Lower(Strip(text))
        IN  {i \in TicketIds : \/ Contains(Lower(Key(i)), search_lower)
                               \/ Contains(Lower(Summary(i)), search_lower)}]

InSeq(x, s) == \E k \in 1..Len(s) : s[k] = x

EnhInit ==
    /\ e_all_tickets = <<>>
    /\ e_filtered_tickets = <<>>
    /\ e_tree = <<>>
    /\ e_ticket_filter = "My Tickets"
    /\ e_hide_completed = TRUE
    /\ e_loaded = <<>>
    /\ e_searched = FALSE
    /\ e_last = "none"
    /\ e_selection = 0
    /\ e_current_ticket = 0
    /\ e_actions_enabled = FALSE
    /\ e_toolbar_visible = FALSE
    /\ e_details_text = 0

\* on_ticket_select with the selection sel in a shell whose ticket lists are
\* all and filtered; fetched is what fetch_ticket_details would return.
E_on_ticket_select(sel, all, filtered, fetched) ==
    IF sel = 0
    THEN /\ e_current_ticket' = 0
         /\ e_toolbar_visible' = FALSE
         /\ e_actions_enabled' = FALSE
         /\ UNCHANGED e_details_text
    ELSE LET found == IF InSeq(sel, all) \/ InSeq(sel, filtered) THEN sel ELSE fetched
         IN  /\ e_current_ticket' = found
             /\ e_toolbar_visible' = (found # 0)
             /\ e_actions_enabled' = (found # 0)
             /\ e_details_text' = IF found # 0 THEN found ELSE e_details_text

\* Deleting the rows empties the selection.  Whether the treeview then sends
\* <<TreeviewSelect>> depends on the Tk build: `notified` is that choice.
E_RowsDeleted(notified) ==
    /\ e_selection' = 0
    /\ IF notified /\ e_selection # 0
       THEN E_on_ticket_select(0, <<>>, <<>>, 0)
       ELSE UNCHANGED <<e_current_ticket, e_toolbar_visible, e_actions_enabled,
                        e_details_text>>

E_update_ticket_list(issues) ==
    /\ e_tree' = issues
    /\ e_all_tickets' = issues

E_LoadDelivered(issues, notified) ==
    /\ E_update_ticket_list(issues)
    /\ E_RowsDeleted(notified)
    /\ e_loaded' = issues
    /\ e_searched' = FALSE
    /\ e_last' = "load"
    /\ UNCHANGED <<e_filtered_tickets, e_ticket_filter, e_hide_completed>>

\* The body of filter_tickets with the widgets holding tf and hide.
E_filter_body(tf, hide, notified) ==
    IF e_all_tickets = <<>>
    THEN UNCHANGED <<e_tree, e_filtered_tickets, e_all_tickets, e_selection,
                     e_current_ticket, e_toolbar_visible, e_actions_enabled,
                     e_details_text>>
    ELSE LET tickets_to_show == SelectSeq(e_all_tickets, LAMBDA i : E_Keep(i, tf, hide))
         IN  /\ e_filtered_tickets' = tickets_to_show
             /\ e_tree' = tickets_to_show               \* display_filtered_tickets
             /\ E_RowsDeleted(notified)
             /\ UNCHANGED e_all_tickets

E_filter_tickets(tf, hide, notified) ==
    /\ e_ticket_filter' = tf
    /\ e_hide_completed' = hide
    /\ E_filter_body(tf, hide, notified)
    /\ e_last' = "filter"
    /\ UNCHANGED <<e_loaded, e_searched>>

\* search_tickets with self.search_entry holding text.
E_search_tickets(text, notified) ==
    LET search_term == Strip(text)
    IN  /\ UNCHANGED <<e_ticket_filter, e_hide_completed, e_loaded>>
        /\ IF search_term = search_placeholder \/ search_term = <<>>
           THEN /\ E_filter_body(e_ticket_filter, e_hide_completed, notified)
                /\ e_last' = "restore"
                /\ UNCHANGED e_searched
           ELSE IF e_all_tickets = <<>>
           THEN UNCHANGED <<e_tree, e_filtered_tickets, e_all_tickets, e_selection,
                            e_current_ticket, e_toolbar_visible, e_actions_enabled,
                            e_details_text, e_last, e_searched>>
           ELSE LET matching_tickets ==
                        SelectSeq(e_all_tickets, LAMBDA i : i \in matching[text])
                IN  /\ E_update_ticket_list(matching_tickets)
                    /\ E_RowsDeleted(notified)
                    /\ e_last' = "search"
                    /\ e_searched' = TRUE
                    /\ UNCHANGED e_filtered_tickets

\* The operator clicks row sel (the selection changes and on_ticket_select runs).
E_SelectRow(sel, fetched) ==
    /\ InSeq(sel, e_tree)
    /\ e_selection # sel
    /\ e_selection' = sel
    /\ E_on_ticket_select(sel, e_all_tickets, e_filtered_tickets, fetched)
    /\ UNCHANGED <<e_all_tickets, e_filtered_tickets, e_tree, e_ticket_filter,
                   e_hide_completed, e_loaded, e_searched, e_last>>

\* The operator toggles the selected row off (Ctrl-click): empty selection.
E_ClearSelection ==
    /\ e_selection # 0
    /\ e_selection' = 0
    /\ E_on_ticket_select(0, e_all_tickets, e_filtered_tickets, 0)
    /\ UNCHANGED <<e_all_tickets, e_filtered_tickets, e_tree, e_ticket_filter,
                   e_hide_completed, e_loaded, e_searched, e_last>>

EnhNext ==
    \/ \E issues \in IssueLists, n \in BOOLEAN :
           E_LoadDelivered(issues, n) /\ UNCHANGED exceptEnh
    \/ \E tf \in TicketFilters, n \in BOOLEAN :
           E_filter_tickets(tf, e_hide_completed, n) /\ UNCHANGED exceptEnh
    \/ \E n \in BOOLEAN :
           E_filter_tickets(e_ticket_filter, ~e_hide_completed, n) /\ UNCHANGED exceptEnh
    \/ \E text \in SearchTexts, n \in BOOLEAN :
           E_search_tickets(text, n) /\ UNCHANGED exceptEnh
    \/ \E sel \in TicketIds : \E fetched \in {0, sel} :
           E_SelectRow(sel, fetched) /\ UNCHANGED exceptEnh
    \/ E_ClearSelection /\ UNCHANGED exceptEnh

-----------------------------------------------------------------------------
(* Status transitions: close_ticket, resolve_ticket, open_ticket of the    *)
(* baseline shell, the enhanced shell and TicketOperationsManager          *)

TransitionNames ==
    << <<83,116,97,114,116,32,80,114,111,103,114,101,115,115>>,  \* "Start Progress"
       <<82,101,115,111,108,118,101,32,73,115,115,117,101>>,     \* "Resolve Issue"
       <<67,108,111,115,101,32,73,115,115,117,101>>,             \* "Close Issue"
       <<82,101,111,112,101,110,32,73,115,115,117,101>>,         \* "Reopen Issue"
       <<77,97,114,107,32,97,115,32,68,111,110,101>> >>          \* "Mark as Done"

MaxTransitions == 3

\* The transition lists the backend can answer with: up to MaxTransitions
\* different transitions in any order.
TransitionLists ==
    {s \in UNION {[1..n -> 1..Len(TransitionNames)] : n \in 0..MaxTransitions} :
        \A i, j \in 1..Len(s) : i # j => s[i] # s[j]}

kw_close       == <<99,108,111,115,101>>
kw_done        == <<100,111,110,101>>
kw_complete    == <<99,111,109,112,108,101,116,101>>
kw_resolve     == <<114,101,115,111,108,118,101>>
kw_open        == <<111,112,101,110>>
kw_reopen      == <<114,101,111,112,101,110>>
kw_in_progress == <<105,110,32,112,114,111,103,114,101,115,115>>
kw_start       == <<115,116,97,114,116>>

Shells == {"baseline", "enhanced", "modular"}

Keywords_narrow(shell, action) ==
    CASE action = "close"   -> {kw_close, kw_done, kw_complete}
      [] action = "resolve" -> {kw_resolve}
      [] OTHER              -> {kw_open, kw_reopen}

\* The keyword list each handler matches the lower-cased names against.
Keywords(shell, action) ==
    CASE action = "close" ->
             IF shell = "enhanced" THEN {kw_close, kw_done, kw_complete}
             ELSE {kw_close, kw_done, kw_complete, kw_resolve}
      [] action = "resolve" ->
             IF shell = "enhanced" THEN {kw_resolve, kw_done} ELSE {kw_resolve}
      [] OTHER ->
             IF shell = "enhanced" THEN {kw_open, kw_reopen, kw_start}
             ELSE {kw_open, kw_reopen, kw_in_progress, kw_start}

\* keyword in transition['name'].lower(), tabulated for every name and keyword
keyword_in_name ==
    [i \in DOMAIN TransitionNames |->
        {k \in {kw_close, kw_done, kw_complete, kw_resolve, kw_open, kw_reopen,
                kw_in_progress, kw_start} :
            Contains(Lower(TransitionNames[i]), k)}]

Candidates(shell, action, transitions) ==
    SelectSeq(transitions,
              LAMBDA i : Keywords(shell, action) \cap keyword_in_name[i] # {})

\* `if len(xxx_transitions) > 1: choice = messagebox.askyesnocancel(...)`
AsksFirst(shell, action) == shell # "enhanced" /\ action \in {"close", "open"}

TransInit ==
    /\ t_shell = "baseline"
    /\ t_action = "none"
    /\ t_get_ok = FALSE
    /\ t_transitions = <<>>
    /\ t_asked = FALSE
    /\ t_choice = "none"
    /\ t_posted = 0
    /\ t_dialog = "none"
    /\ t_options = <<>>

\* What the backend answers to GET issue/{key}/transitions: a list of
\* transitions, or nothing (make_jira_request returned None).
GetAnswers ==
    [ok : {TRUE}, transitions : TransitionLists] \cup [ok : {FALSE}, transitions : {<<>>}]

\* The operator's answer to askyesnocancel, and whether the POST that follows
\* a "yes" succeeds.
Answers ==
    [choice : {"yes"}, post_ok : BOOLEAN] \cup [choice : {"no", "cancel"}, post_ok : {FALSE}]

\* One run of a handler of `shell` for `action` on the current ticket.
TransitionHandler(shell, action, get, answer) ==
    LET transitions == get.transitions
        cands == Candidates(shell, action, transitions)
        silent == shell = "enhanced" /\ action # "resolve"
        asks == AsksFirst(shell, action) /\ Len(cands) > 1
    IN  /\ t_shell' = shell
        /\ t_action' = action
        /\ t_get_ok' = get.ok
        /\ t_transitions' = transitions
        /\ IF ~get.ok
           THEN /\ t_dialog' = IF silent THEN "none" ELSE "get_failed"
                /\ t_asked' = FALSE /\ t_choice' = "none"
                /\ t_posted' = 0 /\ t_options' = <<>>
           ELSE IF cands = <<>>
           THEN /\ t_dialog' = IF silent THEN "none" ELSE "no_match"
                /\ t_options' = IF silent THEN <<>> ELSE transitions
                /\ t_asked' = FALSE /\ t_choice' = "none"
                /\ t_posted' = 0
           ELSE IF asks /\ answer.choice # "yes"
           THEN /\ t_asked' = TRUE /\ t_choice' = answer.choice
                /\ t_dialog' = "none" /\ t_posted' = 0 /\ t_options' = <<>>
           ELSE /\ t_asked' = asks
                /\ t_choice' = IF asks THEN "yes" ELSE "none"
                /\ t_posted' = cands[1]
                /\ t_options' = <<>>
                /\ t_dialog' = IF answer.post_ok THEN "success"
                               ELSE IF shell = "enhanced" THEN "none"
                               ELSE "post_failed"

close_ticket(shell, get, answer) == TransitionHandler(shell, "close", get, answer)

resolve_ticket(shell, get, answer) == TransitionHandler(shell, "resolve", get, answer)

open_ticket(shell, get, answer) ==
    /\ shell # "modular"
    /\ TransitionHandler(shell, "open", get, answer)

TransNext ==
    \/ \E shell \in Shells, get \in GetAnswers, answer \in Answers :
           close_ticket(shell, get, answer) /\ UNCHANGED exceptTrans
    \/ \E shell \in Shells, get \in GetAnswers, answer \in Answers :
           resolve_ticket(shell, get, answer) /\ UNCHANGED exceptTrans
    \/ \E shell \in Shells, get \in GetAnswers, answer \in Answers :
           open_ticket(shell, get, answer) /\ UNCHANGED exceptTrans

-----------------------------------------------------------------------------
(* License keys as text.  A key is the sequence of the character codes of  *)
(* its base64 text; bytes and decoded text are sequences of integers too.  *)

b64_chars ==    \* "ABCDEFGHIJKLMNOPQRSTUVWXYZabcdefghijklmnopqrstuvwxyz0123456789+/"
    [v \in 0..63 |-> IF v < 26 THEN 65 + v
                     ELSE IF v < 52 THEN 97 + (v - 26)
                     ELSE IF v < 62 THEN 48 + (v - 52)
                     ELSE IF v = 62 THEN 43 ELSE 47]

\* Value of a base64 character, -1 for a character outside the alphabet.
b64_value(c) ==
    IF c \in 65..90 THEN c - 65
    ELSE IF c \in 97..122 THEN c - 97 + 26
    ELSE IF c \in 48..57 THEN c - 48 + 52
    ELSE IF c = 43 THEN 62
    ELSE IF c = 47 THEN 63
    ELSE -1

\* base64.b64encode(bytes).decode()
b64encode(bytes) ==
    LET n == Len(bytes)
        byte(j) == IF j <= n THEN bytes[j] ELSE 0
    IN  [k \in 1..(4 * ((n + 2) \div 3)) |->
            LET g == 3 * ((k - 1) \div 4)
            IN  CASE k % 4 = 1 -> b64_chars[byte(g + 1) \div 4]
                  [] k % 4 = 2 -> b64_chars[(byte(g + 1) % 4) * 16 + (byte(g + 2) \div 16)]
                  [] k % 4 = 3 -> IF g + 2 <= n
                                  THEN b64_chars[(byte(g + 2) % 16) * 4 + (byte(g + 3) \div 64)]
                                  ELSE 61
                  [] OTHER     -> IF g + 3 <= n THEN b64_chars[byte(g + 3) % 64] ELSE 61]

\* The least element of a non-empty set of integers.
Min(S) == CHOOSE x \in S : \A y \in S : x <= y

\* base64.b64decode(key) with validate=False (binascii.a2b_base64, not
\* strict).  The loop keeps quad_pos, the number of data characters read
\* modulo 4, and pads, the '=' met since the last data character:
\* characters outside the alphabet are skipped; a '=' met with quad_pos >= 2
\* and quad_pos + pads >= 4 ends decoding; when the input ends otherwise,
\* quad_pos # 0 is an error ("Incorrect padding").
a2b_base64(key) ==
    LET is_data(i) == b64_value(key[i]) >= 0
        quad_pos(i) == Cardinality({j \in 1..(i - 1) : is_data(j)}) % 4
        pads(i) == Cardinality({j \in 1..i : /\ key[j] = 61
                                             /\ \A m \in j..i : ~is_data(m)})
        stops == {i \in 1..Len(key) : /\ key[i] = 61
                                      /\ quad_pos(i) >= 2
                                      /\ quad_pos(i) + pads(i) >= 4}
        end == IF stops = {} THEN Len(key) ELSE Min(stops)
        data == SelectSeq(SubSeq(key, 1, end), LAMBDA c : b64_value(c) >= 0)
        n == Len(data)
        v(j) == b64_value(data[j])
    IN  [ok |-> stops # {} \/ n % 4 = 0,
         v  |-> [k \in 1..(3 * (n \div 4) + (IF n % 4 >= 2 THEN (n % 4) - 1 ELSE 0)) |->
                    LET g == 4 * ((k - 1) \div 3)
                    IN  CASE k % 3 = 1 -> v(g + 1) * 4 + (v(g + 2) \div 16)
                          [] k % 3 = 2 -> (v(g + 2) % 16) * 16 + (v(g + 3) \div 4)
                          [] OTHER     -> (v(g + 3) % 4) * 64 + v(g + 4)]]

\* bytes.decode(): strict UTF-8 to code points, from byte i on; ok is FALSE
\* where Python raises UnicodeDecodeError.  A run of ASCII bytes is copied
\* in one step.
RECURSIVE utf8_decode(_, _, _)
utf8_decode(b, i, out) ==
    LET high == {j \in i..Len(b) : b[j] >= 128}
        p == IF high = {} THEN Len(b) + 1 ELSE Min(high)
        run == out \o SubSeq(b, i, p - 1)
        cont(k, lo, hi) == p + k <= Len(b) /\ b[p + k] \in lo..hi
        low(k) == b[p + k] % 64
    IN  IF p > Len(b) THEN [ok |-> TRUE, v |-> run]
        ELSE IF b[p] \in 194..223 /\ cont(1, 128, 191)
        THEN utf8_decode(b, p + 2, Append(run, (b[p] % 32) * 64 + low(1)))
        ELSE IF /\ b[p] \in 224..239
                /\ cont(1, IF b[p] = 224 THEN 160 ELSE 128,
                           IF b[p] = 237 THEN 159 ELSE 191)
                /\ cont(2, 128, 191)
        THEN utf8_decode(b, p + 3,
                         Append(run, (b[p] % 16) * 4096 + low(1) * 64 + low(2)))
        ELSE IF /\ b[p] \in 240..244
                /\ cont(1, IF b[p] = 240 THEN 144 ELSE 128,
                           IF b[p] = 244 THEN 143 ELSE 191)
                /\ cont(2, 128, 191) /\ cont(3, 128, 191)
        THEN utf8_decode(b, p + 4,
                         Append(run, (b[p] % 8) * 262144 + low(1) * 4096
                                     + low(2) * 64 + low(3)))
        ELSE [ok |-> FALSE, v |-> <<>>]

-----------------------------------------------------------------------------
(* json.loads.  Python values are tagged pairs: <<"str", text>>,           *)
(* <<"int", n>> (<<"bigint", literal>> beyond nine digits),                *)
(* <<"float", literal>>, <<"bool", b>>, <<"null", 0>>,                     *)
(* <<"list", values>> and <<"dict", items>>, items being the <<key, value>> *)
(* pairs in insertion order.                                               *)

json_fail == [ok |-> FALSE, v |-> <<>>, i |-> 0]

IsDigit(c) == c \in 48..57

HexValue(c) ==
    IF c \in 48..57 THEN c - 48
    ELSE IF c \in 97..102 THEN c - 87
    ELSE IF c \in 65..70 THEN c - 55
    ELSE -1

\* The character at position i, 0 past the end.
At(s, i) == IF i <= Len(s) THEN s[i] ELSE 0

RECURSIVE skip_ws(_, _)
skip_ws(s, i) ==
    IF At(s, i) \in {32, 9, 10, 13} THEN skip_ws(s, i + 1) ELSE i

RECURSIVE skip_digits(_, _)
skip_digits(s, i) == IF IsDigit(At(s, i)) THEN skip_digits(s, i + 1) ELSE i

RECURSIVE digits_value(_, _, _, _)
digits_value(s, i, j, acc) ==
    IF i >= j THEN acc ELSE digits_value(s, i + 1, j, acc * 10 + (s[i] - 48))

\* \uXXXX at positions i..i+3: its value, -1 when not four hex digits.
hex4(s, i) ==
    IF i + 3 <= Len(s) /\ \A k \in 0..3 : HexValue(s[i + k]) >= 0
    THEN HexValue(s[i]) * 4096 + HexValue(s[i + 1]) * 256
         + HexValue(s[i + 2]) * 16 + HexValue(s[i + 3])
    ELSE -1

\* Characters copied in one step by the string scanners.
Chunk == 16

\* py_scanstring, strict: i is the next character of the string body (the
\* STRINGCHUNK loop: a run of plain characters, then '"', '\' or a control
\* character).
RECURSIVE scanstring(_, _, _)
scanstring(s, i, out) ==
    LET last == IF i + Chunk - 1 < Len(s) THEN i + Chunk - 1 ELSE Len(s)
        ends == {j \in i..last : s[j] = 34 \/ s[j] = 92 \/ s[j] < 32}
        p == IF ends = {} THEN last + 1 ELSE Min(ends)
        run == out \o SubSeq(s, i, p - 1)
        e == At(s, p + 1)
        u == hex4(s, p + 2)
        u2 == IF At(s, p + 6) = 92 /\ At(s, p + 7) = 117 THEN hex4(s, p + 8) ELSE -1
    IN  IF ends = {} /\ last < Len(s) THEN scanstring(s, last + 1, run)
        ELSE IF p > Len(s) \/ s[p] < 32 THEN json_fail
        ELSE IF s[p] = 34 THEN [ok |-> TRUE, v |-> <<"str", run>>, i |-> p + 1]
        ELSE IF p + 1 > Len(s) THEN json_fail
        ELSE IF e \in {34, 92, 47} THEN scanstring(s, p + 2, Append(run, e))
        ELSE IF e = 98 THEN scanstring(s, p + 2, Append(run, 8))
        ELSE IF e = 102 THEN scanstring(s, p + 2, Append(run, 12))
        ELSE IF e = 110 THEN scanstring(s, p + 2, Append(run, 10))
        ELSE IF e = 114 THEN scanstring(s, p + 2, Append(run, 13))
        ELSE IF e = 116 THEN scanstring(s, p + 2, Append(run, 9))
        ELSE IF e = 117 /\ u >= 0
        THEN IF u \in 55296..56319 /\ u2 \in 56320..57343
             THEN scanstring(s, p + 12,
                             Append(run, 65536 + (u - 55296) * 1024 + (u2 - 56320)))
             ELSE scanstring(s, p + 6, Append(run, u))
        ELSE json_fail

\* NUMBER_RE: (-?(?:0|[1-9]\d*))(\.\d+)?([eE][-+]?\d+)? at position i.
\* i0 is the first digit, i1 the end of the integer part, f1 the end of the
\* fraction, x0 the first digit of the exponent, e1 the end of the match.
match_number(s, i) ==
    LET matched(i0, i1, e1) ==
            IF i1 = i0 THEN json_fail
            ELSE IF e1 = i1 /\ i1 - i0 > 9
            THEN [ok |-> TRUE, i |-> i1, v |-> <<"bigint", SubSeq(s, i, i1 - 1)>>]
            ELSE IF e1 = i1
            THEN [ok |-> TRUE, i |-> i1,
                  v |-> <<"int", IF i0 = i THEN digits_value(s, i0, i1, 0)
                                 ELSE 0 - digits_value(s, i0, i1, 0)>>]
            ELSE [ok |-> TRUE, i |-> e1, v |-> <<"float", SubSeq(s, i, e1 - 1)>>]
        exponent(i0, i1, f1, x0) ==
            matched(i0, i1, IF At(s, f1) \in {69, 101} /\ IsDigit(At(s, x0))
                            THEN skip_digits(s, x0) ELSE f1)
        fraction(i0, i1, f1) ==
            exponent(i0, i1, f1, IF At(s, f1 + 1) \in {43, 45} THEN f1 + 2 ELSE f1 + 1)
        integer(i0, i1) ==
            fraction(i0, i1, IF At(s, i1) = 46 /\ IsDigit(At(s, i1 + 1))
                             THEN skip_digits(s, i1 + 1) ELSE i1)
        sign(i0) == integer(i0, IF At(s, i0) = 48 THEN i0 + 1 ELSE skip_digits(s, i0))
    IN  sign(IF At(s, i) = 45 THEN i + 1 ELSE i)

StartsWith(s, i, word) ==
    i + Len(word) - 1 <= Len(s) /\ SubSeq(s, i, i + Len(word) - 1) = word

RECURSIVE scan_once(_, _)
RECURSIVE JSONObject(_, _, _)
RECURSIVE JSONArray(_, _, _)

\* scanner.py_make_scanner._scan_once
scan_once(s, i) ==
    LET c == At(s, i)
        number(m) ==
            IF m.ok THEN m
            ELSE IF StartsWith(s, i, <<45,73,110,102,105,110,105,116,121>>)  \* -Infinity
            THEN [ok |-> TRUE, v |-> <<"float", SubSeq(s, i, i + 8)>>, i |-> i + 9]
            ELSE json_fail
    IN  IF i > Len(s) THEN json_fail
        ELSE IF c = 34 THEN scanstring(s, i + 1, <<>>)
        ELSE IF c = 123
        THEN LET j == skip_ws(s, i + 1)
             IN  IF At(s, j) = 125
                 THEN [ok |-> TRUE, v |-> <<"dict", <<>>>>, i |-> j + 1]
                 ELSE JSONObject(s, j, <<>>)
        ELSE IF c = 91
        THEN LET j == skip_ws(s, i + 1)
             IN  IF At(s, j) = 93
                 THEN [ok |-> TRUE, v |-> <<"list", <<>>>>, i |-> j + 1]
                 ELSE JSONArray(s, j, <<>>)
        ELSE IF StartsWith(s, i, <<110,117,108,108>>)                 \* null
        THEN [ok |-> TRUE, v |-> <<"null", 0>>, i |-> i + 4]
        ELSE IF StartsWith(s, i, <<116,114,117,101>>)                 \* true
        THEN [ok |-> TRUE, v |-> <<"bool", TRUE>>, i |-> i + 4]
        ELSE IF StartsWith(s, i, <<102,97,108,115,101>>)              \* false
        THEN [ok |-> TRUE, v |-> <<"bool", FALSE>>, i |-> i + 5]
        ELSE IF c = 45 \/ IsDigit(c)
        THEN number(match_number(s, i))
        ELSE IF StartsWith(s, i, <<78,97,78>>)                        \* NaN
        THEN [ok |-> TRUE, v |-> <<"float", SubSeq(s, i, i + 2)>>, i |-> i + 3]
        ELSE IF StartsWith(s, i, <<73,110,102,105,110,105,116,121>>)  \* Infinity
        THEN [ok |-> TRUE, v |-> <<"float", SubSeq(s, i, i + 7)>>, i |-> i + 8]
        ELSE json_fail

\* decoder.JSONObject from the first key on: i is at the key's opening
\* quote, pairs the items read so far (a repeated key keeps its place and
\* takes the last value).
JSONObject(s, i, pairs) ==
    LET next_item(now, e) ==
            IF At(s, e) = 125 THEN [ok |-> TRUE, v |-> <<"dict", now>>, i |-> e + 1]
            ELSE IF At(s, e) = 44 THEN JSONObject(s, skip_ws(s, e + 1), now)
            ELSE json_fail
        put(key, value) ==
            IF \E n \in 1..Len(pairs) : pairs[n][1] = key
            THEN [n \in 1..Len(pairs) |->
                     IF pairs[n][1] = key THEN <<key, value>> ELSE pairs[n]]
            ELSE Append(pairs, <<key, value>>)
        have_value(key, val) ==
            IF ~val.ok THEN json_fail
            ELSE next_item(put(key, val.v), skip_ws(s, val.i))
        have_key(key, c) ==
            IF At(s, c) # 58 THEN json_fail
            ELSE have_value(key, scan_once(s, skip_ws(s, c + 1)))
        scanned(k) ==
            IF ~k.ok THEN json_fail ELSE have_key(k.v[2], skip_ws(s, k.i))
    IN  IF At(s, i) # 34 THEN json_fail
        ELSE scanned(scanstring(s, i + 1, <<>>))

\* decoder.JSONArray from the first element on.
JSONArray(s, i, values) ==
    LET next_value(now, e) ==
            IF At(s, e) = 93 THEN [ok |-> TRUE, v |-> <<"list", now>>, i |-> e + 1]
            ELSE IF At(s, e) = 44 THEN JSONArray(s, skip_ws(s, e + 1), now)
            ELSE json_fail
        have_value(val) ==
            IF ~val.ok THEN json_fail
            ELSE next_value(Append(values, val.v), skip_ws(s, val.i))
    IN  have_value(scan_once(s, i))

\* json.loads(text): one value between optional whitespace, nothing after it.
json_loads(text) ==
    LET whole(r) == IF r.ok /\ skip_ws(text, r.i) = Len(text) + 1 THEN r ELSE json_fail
    IN  whole(scan_once(text, skip_ws(text, 1)))

-----------------------------------------------------------------------------
(* json.dumps.  A dict is <<"dict", pairs>>, pairs being its <<key, value>> *)
(* items in insertion order.                                               *)

RECURSIVE str_less(_, _, _)
str_less(a, b, i) ==          \* a < b for str: code points, then length
    IF i > Len(a) THEN i <= Len(b)
    ELSE IF i > Len(b) THEN FALSE
    ELSE IF a[i] # b[i] THEN a[i] < b[i]
    ELSE str_less(a, b, i + 1)

\* sorted(dct.items()) for items with distinct keys
RECURSIVE sorted_items(_)
sorted_items(pairs) ==
    IF pairs = <<>> THEN <<>>
    ELSE LET m == CHOOSE k \in 1..Len(pairs) :
                      \A j \in 1..Len(pairs) : j = k \/ str_less(pairs[k][1], pairs[j][1], 1)
         IN  <<pairs[m]>> \o sorted_items(SubSeq(pairs, 1, m - 1)
                                          \o SubSeq(pairs, m + 1, Len(pairs)))

hex_digit(v) == IF v < 10 THEN 48 + v ELSE 87 + v

u_escape(u) ==                \* '\\u{0:04x}'.format(u)
    <<92, 117, hex_digit(u \div 4096), hex_digit((u \div 256) % 16),
      hex_digit((u \div 16) % 16), hex_digit(u % 16)>>

\* encode_basestring_ascii without the quotes, from character i on; a run of
\* characters that need no escape is copied in one step.
RECURSIVE escape_ascii(_, _)
escape_ascii(t, i) ==
    LET special == {j \in i..Len(t) : t[j] < 32 \/ t[j] > 126 \/ t[j] = 34 \/ t[j] = 92}
        p == IF special = {} THEN Len(t) + 1 ELSE Min(special)
        c == t[p]
        one == CASE c = 34 -> <<92, 34>>
                 [] c = 92 -> <<92, 92>>
                 [] c = 10 -> <<92, 110>>
                 [] c = 13 -> <<92, 114>>
                 [] c = 9  -> <<92, 116>>
                 [] c = 12 -> <<92, 102>>
                 [] c = 8  -> <<92, 98>>
                 [] c < 65536 -> u_escape(c)
                 [] OTHER -> u_escape(55296 + ((c - 65536) \div 1024))
                             \o u_escape(56320 + ((c - 65536) % 1024))
    IN  IF p > Len(t) THEN SubSeq(t, i, Len(t))
        ELSE SubSeq(t, i, p - 1) \o one \o escape_ascii(t, p + 1)

RECURSIVE int_digits(_)
int_digits(n) ==              \* str(n) for n >= 0
    IF n < 10 THEN <<48 + n>> ELSE Append(int_digits(n \div 10), 48 + (n % 10))

RECURSIVE json_dumps(_, _)
RECURSIVE dumps_items(_, _, _, _)

\* json.dumps(v, sort_keys=sort_keys), default separators ', ' and ': '
json_dumps(v, sort_keys) ==
    CASE v[1] = "str"   -> <<34>> \o escape_ascii(v[2], 1) \o <<34>>
      [] v[1] = "int"   -> IF v[2] < 0 THEN <<45>> \o int_digits(0 - v[2])
                           ELSE int_digits(v[2])
      [] v[1] = "bool"  -> IF v[2] THEN <<116,114,117,101>> ELSE <<102,97,108,115,101>>
      [] v[1] = "null"  -> <<110,117,108,108>>
      [] v[1] \in {"float", "bigint"} -> v[2]
      [] v[1] = "list"  -> <<91>> \o dumps_items(v[2], 1, FALSE, sort_keys) \o <<93>>
      [] OTHER          -> <<123>>
                           \o dumps_items(IF sort_keys THEN sorted_items(v[2]) ELSE v[2],
                                          1, TRUE, sort_keys)
                           \o <<125>>

dumps_items(items, i, keyed, sort_keys) ==
    IF i > Len(items) THEN <<>>
    ELSE (IF i > 1 THEN <<44, 32>> ELSE <<>>)
         \o (IF keyed
             THEN <<34>> \o escape_ascii(items[i][1], 1) \o <<34, 58, 32>>
                  \o json_dumps(items[i][2], sort_keys)
             ELSE json_dumps(items[i], sort_keys))
         \o dumps_items(items, i + 1, keyed, sort_keys)

\* dct[key]: <<TRUE, value>>, or <<FALSE, 0>> where Python raises KeyError
\* (no such key) or TypeError (dct is not a dict).
get_item(dct, key) ==
    IF dct[1] = "dict" /\ \E k \in 1..Len(dct[2]) : dct[2][k][1] = key
    THEN <<TRUE, dct[2][CHOOSE k \in 1..Len(dct[2]) : dct[2][k][1] = key][2]>>
    ELSE <<FALSE, 0>>

-----------------------------------------------------------------------------
(* LicenseManager.generate_license_key, validate_license_key of both       *)
(* classes                                                                 *)

s_data       == <<100,97,116,97>>
s_signature  == <<115,105,103,110,97,116,117,114,101>>
s_email      == <<101,109,97,105,108>>
s_type       == <<116,121,112,101>>
s_expires    == <<101,120,112,105,114,101,115>>
s_machine_id == <<109,97,99,104,105,110,101,95,105,100>>
s_version    == <<118,101,114,115,105,111,110>>
s_features   == <<102,101,97,116,117,114,101,115>>
s_trial      == <<116,114,105,97,108>>
s_standard   == <<115,116,97,110,100,97,114,100>>
s_premium    == <<112,114,101,109,105,117,109>>

trial_days == 14

\* get_license_features(license_type): features.get(license_type, features["trial"])
\* A table lookup that always falls back to its default, the trial entry.
get_license_features_default(license_type) ==
    <<
       <<<<99,114,101,97,116,101,95,116,105,99,107,101,116,115>>, <<"bool", TRUE>>>>,
       <<<<99,111,109,109,101,110,116,95,116,105,99,107,101,116,115>>, <<"bool", TRUE>>>>,
       <<<<97,115,115,105,103,110,95,116,105,99,107,101,116,115>>, <<"bool", TRUE>>>>,
       <<<<115,101,97,114,99,104,95,116,105,99,107,101,116,115>>, <<"bool", TRUE>>>>,
       <<<<101,120,112,111,114,116,95,100,97,116,97>>, <<"bool", FALSE>>>>,
       <<<<97,112,105,95,97,99,99,101,115,115>>, <<"bool", FALSE>>>>,
       <<<<112,114,105,111,114,105,116,121,95,115,117,112,112,111,114,116>>, <<"bool", FALSE>>>>,
       <<<<109,97,120,95,117,115,101,114,115>>, <<"int", 1>>>> >>

get_license_features(license_type) ==
    CASE license_type = s_standard ->
        << 
           <<<<99,114,101,97,116,101,95,116,105,99,107,101,116,115>>, <<"bool", TRUE>>>>,   \* "create_tickets"
           <<<<99,111,109,109,101,110,116,95,116,105,99,107,101,116,115>>, <<"bool", TRUE>>>>,   \* "comment_tickets"
           <<<<97,115,115,105,103,110,95,116,105,99,107,101,116,115>>, <<"bool", TRUE>>>>,   \* "assign_tickets"
           <<<<115,101,97,114,99,104,95,116,105,99,107,101,116,115>>, <<"bool", TRUE>>>>,   \* "search_tickets"
           <<<<101,120,112,111,114,116,95,100,97,116,97>>, <<"bool", TRUE>>>>,   \* "export_data"
           <<<<97,112,105,95,97,99,99,101,115,115>>, <<"bool", TRUE>>>>,   \* "api_access"
           <<<<112,114,105,111,114,105,116,121,95,115,117,112,112,111,114,116>>, <<"bool", FALSE>>>>,   \* "priority_support"
           <<<<109,97,120,95,117,115,101,114,115>>, <<"int", 5>>>> >>   \* "max_users"
      [] license_type = s_premium ->
        << 
           <<<<99,114,101,97,116,101,95,116,105,99,107,101,116,115>>, <<"bool", TRUE>>>>,   \* "create_tickets"
           <<<<99,111,109,109,101,110,116,95,116,105,99,107,101,116,115>>, <<"bool", TRUE>>>>,   \* "comment_tickets"
           <<<<97,115,115,105,103,110,95,116,105,99,107,101,116,115>>, <<"bool", TRUE>>>>,   \* "assign_tickets"
           <<<<115,101,97,114,99,104,95,116,105,99,107,101,116,115>>, <<"bool", TRUE>>>>,   \* "search_tickets"
           <<<<101,120,112,111,114,116,95,100,97,116,97>>, <<"bool", TRUE>>>>,   \* "export_data"
           <<<<97,112,105,95,97,99,99,101,115,115>>, <<"bool", TRUE>>>>,   \* "api_access"
           <<<<112,114,105,111,114,105,116,121,95,115,117,112,112,111,114,116>>, <<"bool", TRUE>>>>,   \* "priority_support"
           <<<<109,97,120,95,117,115,101,114,115>>, <<"int", -1>>>> >>   \* "max_users"
      [] OTHER ->
        << 
           <<<<99,114,101,97,116,101,95,116,105,99,107,101,116,115>>, <<"bool", TRUE>>>>,   \* "create_tickets"
           <<<<99,111,109,109,101,110,116,95,116,105,99,107,101,116,115>>, <<"bool", TRUE>>>>,   \* "comment_tickets"
           <<<<97,115,115,105,103,110,95,116,105,99,107,101,116,115>>, <<"bool", TRUE>>>>,   \* "assign_tickets"
           <<<<115,101,97,114,99,104,95,116,105,99,107,101,116,115>>, <<"bool", TRUE>>>>,   \* "search_tickets"
           <<<<101,120,112,111,114,116,95,100,97,116,97>>, <<"bool", FALSE>>>>,   \* "export_data"
           <<<<97,112,105,95,97,99,99,101,115,115>>, <<"bool", FALSE>>>>,   \* "api_access"
           <<<<112,114,105,111,114,105,116,121,95,115,117,112,112,111,114,116>>, <<"bool", FALSE>>>>,   \* "priority_support"
           <<<<109,97,120,95,117,115,101,114,115>>, <<"int", 1>>>> >>   \* "max_users"

\* Dates are days since 1970-01-01.  civil(z) is the <<year, month, day>> of
\* day z, days_from_civil its inverse (proleptic Gregorian calendar, as
\* datetime uses).
civil(z) ==
    LET n == z + 719468
        era == n \div 146097
        doe == n - era * 146097
        yoe == (doe - (doe \div 1460) + (doe \div 36524) - (doe \div 146096)) \div 365
        doy == doe - (365 * yoe + (yoe \div 4) - (yoe \div 100))
        mp == (5 * doy + 2) \div 153
        m == IF mp < 10 THEN mp + 3 ELSE mp - 9
    IN  <<yoe + era * 400 + (IF m <= 2 THEN 1 ELSE 0), m,
          doy - ((153 * mp + 2) \div 5) + 1>>

days_from_civil(y, m, d) ==
    LET yy == IF m <= 2 THEN y - 1 ELSE y
        era == yy \div 400
        yoe == yy - era * 400
        doy == ((153 * (IF m > 2 THEN m - 3 ELSE m + 9) + 2) \div 5) + d - 1
    IN  era * 146097 + yoe * 365 + (yoe \div 4) - (yoe \div 100) + doy - 719468

two_digits(n) == <<48 + (n \div 10), 48 + (n % 10)>>

\* datetime.isoformat() of 09:00:00 on day z: "YYYY-MM-DDT09:00:00"
isoformat(z) ==
    LET text(ymd) ==
            two_digits(ymd[1] \div 100) \o two_digits(ymd[1] % 100) \o <<45>>
            \o two_digits(ymd[2]) \o <<45>> \o two_digits(ymd[3])
            \o <<84,48,57,58,48,48,58,48,48>>
    IN  text(civil(z))

\* datetime.fromisoformat(text) for a text of that form: its day, or -1
\* where the text is not a date of that form (ValueError when it is no ISO
\* date at all).
fromisoformat(text) ==
    LET day(y, m, d, z) ==
            IF y >= 1 /\ m \in 1..12 /\ d >= 1 /\ civil(z) = <<y, m, d>> THEN z ELSE -1
        date(y, m, d) == day(y, m, d, days_from_civil(y, m, d))
    IN  IF /\ Len(text) = 19
           /\ \A i \in {1, 2, 3, 4, 6, 7, 9, 10} : IsDigit(text[i])
           /\ text[5] = 45 /\ text[8] = 45
           /\ SubSeq(text, 11, 19) = <<84,48,57,58,48,48,58,48,48>>
        THEN date(digits_value(text, 1, 5, 0), digits_value(text, 6, 8, 0),
                  digits_value(text, 9, 11, 0))
        ELSE -1

\* The dict generate_license_key signs.
license_data(user_email_, license_type, expires, machine_id) ==
    <<"dict", << <<s_email, <<"str", user_email_>>>>,
                 <<s_type, <<"str", license_type>>>>,
                 <<s_expires, <<"str", isoformat(expires)>>>>,
                 <<s_machine_id, <<"str", machine_id>>>>,
                 <<s_version, <<"str", <<49, 46, 48>>>>>>,            \* "1.0"
                 <<s_features, <<"dict", get_license_features(license_type)>>>> >> >>

\* get_machine_id() on host h: 16 hexadecimal characters, different for
\* different hosts.
get_machine_id(h) == <<97,51,102,49,99,50,100,52,101,53,98,54,48,55,49>> \o <<48 + h>>

Hosts == 1..2

\* What the generator is asked to sign in this model.
Emails == << <<97,64,98,46,99,111>>, <<97,64,98,46,99,110>> >>   \* "a@b.co", "a@b.cn"
LicenseTypes == <<s_trial, s_standard, s_premium>>

\* Position of x in the sequence seq, 0 when absent.
index_of(seq, x) ==
    IF \E k \in 1..Len(seq) : seq[k] = x THEN CHOOSE k \in 1..Len(seq) : seq[k] = x ELSE 0

Today == 20463                                   \* 2026-01-10, the first day

\* Days the clock can advance past Today.
MaxElapsed == 15

\* What the generator is asked to sign: the emails and types above, on any
\* host, on any day the clock shows, for the trial period or for a year.
DaysValid == {trial_days, 365}

SignInputs ==
    [email : 1..Len(Emails), type : 1..Len(LicenseTypes), host : Hosts,
     expires : {day + n : day \in Today..(Today + MaxElapsed), n \in DaysValid}]

\* The data_string of every license the generator can sign, with the input
\* it comes from.
signed_strings ==
    {<<json_dumps(license_data(Emails[x.email], LicenseTypes[x.type], x.expires,
                               get_machine_id(x.host)), TRUE), x>> : x \in SignInputs}

\* hmac.new(license_secret, text, sha256).hexdigest().  The secret never
\* leaves the generator and the validators, and SHA-256 collisions are not
\* modelled: every text the generator signs has a digest of its own, 64
\* hexadecimal characters; the digest of any other text is a value no key
\* text spells (the code -1).
hmac_hexdigest(text) ==
    LET hexdigest(n) ==
            [k \in 1..64 |-> IF k < 60 THEN hex_digit((7 * k) % 16)
                             ELSE hex_digit((n \div (16 ^ (64 - k))) % 16)]
        number(x) == (((x.expires - Today) * 4 + x.host) * 4 + x.type) * 4 + x.email
        digest(signed) ==
            IF signed = {} THEN <<-1>>
            ELSE hexdigest(number((CHOOSE p \in signed : TRUE)[2]))
    IN  digest({p \in signed_strings : p[1] = text})

\* The payload of a key: the data and the signature of its data_string.
license_payload(license_data_) ==
    <<"dict", << <<s_data, license_data_>>,
                 <<s_signature,
                   <<"str", hmac_hexdigest(json_dumps(license_data_, TRUE))>>>> >> >>

\* generate_license_key(user_email, license_type, days_valid) run on host h
\* on day `today`
generate_license_key(user_email_, license_type, days_valid, h, today) ==
    b64encode(json_dumps(license_payload(license_data(user_email_, license_type,
                                                      today + days_valid,
                                                      get_machine_id(h))),
                         FALSE))

\* A comparison that accepts every pair of digests.
compare_digest_any(a, b) == TRUE

\* hmac.compare_digest(a, b) on two ASCII strings.
compare_digest(a, b) == a = b

\* The statements validate_license_key has in both classes, on day `today`:
\* decode, parse, verify the signature, check the expiry.  error "License
\* validation error" stands for every message the except clause builds.
validation_error ==
    [valid |-> FALSE, error |-> "License validation error", data |-> <<>>,
     days_remaining |-> 0]

\* The expiry check and the result of a key that passes it; expiry_date is
\* -1 where fromisoformat raised.
verify_expiry(data, expiry_date, today) ==
    IF expiry_date < 0 THEN validation_error
    ELSE IF today > expiry_date
    THEN [valid |-> FALSE, error |-> "License expired", data |-> <<>>,
          days_remaining |-> 0]
    ELSE [valid |-> TRUE, error |-> "", data |-> data,
          days_remaining |-> expiry_date - today]

\* datetime.fromisoformat(data["expires"]): -1 for KeyError, TypeError and
\* ValueError.
expires_of(expires) ==
    IF expires[1] /\ expires[2][1] = "str" THEN fromisoformat(expires[2][2]) ELSE -1

\* The signature check of a payload whose "data" and "signature" were looked
\* up (<<FALSE, 0>>: KeyError or TypeError).  compare_digest raises TypeError
\* for a signature that is no str or holds a non-ASCII character.
verify_signature(data, signature, today) ==
    IF ~data[1] \/ ~signature[1] THEN validation_error
    ELSE IF \/ signature[2][1] # "str"
            \/ \E k \in 1..Len(signature[2][2]) : signature[2][2][k] > 127
    THEN validation_error
    ELSE IF ~compare_digest(signature[2][2], hmac_hexdigest(json_dumps(data[2], TRUE)))
    THEN [valid |-> FALSE, error |-> "Invalid license signature", data |-> <<>>,
          days_remaining |-> 0]
    ELSE verify_expiry(data[2], expires_of(get_item(data[2], s_expires)), today)

\* From the parsed payload on.
verify_payload(license_payload_, today) ==
    IF ~license_payload_.ok THEN validation_error
    ELSE verify_signature(get_item(license_payload_.v, s_data),
                          get_item(license_payload_.v, s_signature), today)

\* From the decoded text on.
verify_json(license_json, today) ==
    IF ~license_json.ok THEN validation_error
    ELSE verify_payload(json_loads(license_json.v), today)

\* From the base64-decoded bytes on.
verify_bytes(bytes, today) ==
    IF ~bytes.ok THEN validation_error
    ELSE verify_json(utf8_decode(bytes.v, 1, <<>>), today)

\* validate_license_key up to the machine check, which only one class has:
\* every exception of the try block gives "License validation error".
verify_license_key(license_key, today) == verify_bytes(a2b_base64(license_key), today)

\* The machine check, which LicenseManager alone runs, between the expiry
\* check and the return, on host h.  The data has passed the signature
\* check, so its machine_id is the string the generator wrote.
check_machine_id(cls, h, verified) ==
    LET machine_id == get_item(verified.data, s_machine_id)
    IN  IF /\ verified.valid
           /\ cls = "LicenseManager"
           /\ machine_id[1] /\ machine_id[2] # <<"str", <<>>>>
           /\ machine_id[2] # <<"str", get_machine_id(h)>>
        THEN [valid |-> FALSE, error |-> "License not valid for this machine",
              data |-> <<>>, days_remaining |-> 0]
        ELSE verified

\* validate_license_key(license_key) of class cls on host h on day `today`.
validate_license_key(cls, license_key, h, today) ==
    check_machine_id(cls, h, verify_license_key(license_key, today))

-----------------------------------------------------------------------------
(* A key from the generator to a validator, with at most one character     *)
(* changed on the way                                                      *)

LicenseClasses == {"LicenseManager", "LicenseValidator"}

\* Characters a changed position can hold: the base64 alphabet, '=' and a
\* character outside the alphabet ('!').
KeyChars == {b64_chars[v] : v \in 0..63} \cup {61, 33}

no_result == [valid |-> FALSE, error |-> "", data |-> <<>>, days_remaining |-> 0]

KeyInit ==
    /\ k_stage = "none"
    /\ k_key = <<>>
    /\ k_issued = <<>>
    /\ k_host = 1
    /\ k_class = "LicenseValidator"
    /\ k_result = no_result

\* The administrator generates a key on host 1.
K_Generate(email, type, days_valid) ==
    /\ k_stage = "none"
    /\ k_key' = generate_license_key(Emails[email], LicenseTypes[type], days_valid, 1, Today)
    /\ k_issued' = k_key'
    /\ k_stage' = "generated"
    /\ UNCHANGED <<k_host, k_class, k_result>>

\* One character of the key is replaced by another.
K_ChangeCharacter(pos, c) ==
    /\ k_stage = "generated"
    /\ pos \in 1..Len(k_key)
    /\ k_key[pos] # c
    /\ k_key' = [k_key EXCEPT ![pos] = c]
    /\ k_stage' = "changed"
    /\ UNCHANGED <<k_issued, k_host, k_class, k_result>>

\* The keys the generator is asked for here: one email, the trial and the
\* standard license.
MaxKeyTypes == 2

\* validate_license_key runs on the key, in either class, on any host;
\* `verified` is what the statements the classes share make of the key.
K_Validate(verified) ==
    /\ k_stage \in {"generated", "changed"}
    /\ \E cls \in LicenseClasses, h \in Hosts :
          /\ k_result' = check_machine_id(cls, h, verified)
          /\ k_class' = cls
          /\ k_host' = h
    /\ k_stage' = "validated"
    /\ UNCHANGED <<k_key, k_issued>>

KeyNext ==
    \/ \E type \in 1..MaxKeyTypes :
           K_Generate(1, type, IF type = 1 THEN trial_days ELSE 365) /\ UNCHANGED exceptKey
    \/ /\ k_stage = "generated"
       /\ \E pos \in 1..Len(k_key), c \in KeyChars : K_ChangeCharacter(pos, c)
       /\ UNCHANGED exceptKey
    \/ K_Validate(verify_license_key(k_key, Today)) /\ UNCHANGED exceptKey

-----------------------------------------------------------------------------
(* The enhanced shell's license handling: check_license_on_startup and the  *)
(* activation dialog, on host 1.  The shell constructs a LicenseValidator;  *)
(* the dialog's trial handler calls get_trial_status, start_trial and       *)
(* set_trial_started, which only LicenseManager has, so the handlers are    *)
(* modelled over an object of either class.                                 *)

\* get_trial_status() that never finds the marker.
get_trial_status_never(vault_ok, trial_started) == FALSE

\* LicenseManager.get_trial_status(): keyring.get_password raises when the
\* vault cannot be reached (vault_ok false), and the method returns False.
get_trial_status(vault_ok, trial_started) == vault_ok /\ trial_started

\* load_license(): None (<<>>) when keyring.get_password raises.
load_license(vault_ok, license) == IF vault_ok THEN license ELSE <<>>

\* check_license_status() of class cls on host h.
check_license_status(cls, vault_ok, license, trial_started, h, today) ==
    LET classify(validation_result) ==
            IF ~validation_result.valid
            THEN [status |-> "invalid", message |-> validation_result.error]
            ELSE IF cls = "LicenseValidator"
            THEN [status |-> "licensed", message |-> ""]
            ELSE IF get_item(validation_result.data, s_type)[2] = <<"str", s_trial>>
            THEN [status |-> "trial_active", message |-> ""]
            ELSE [status |-> "licensed", message |-> ""]
        loaded(license_key) ==
            IF license_key = <<>>
            THEN IF cls = "LicenseValidator" \/ ~get_trial_status(vault_ok, trial_started)
                 THEN [status |-> "no_license", message |-> "No license found"]
                 ELSE [status |-> "trial_expired", message |-> "Trial expired"]
            ELSE classify(validate_license_key(cls, license_key, h, today))
    IN  loaded(load_license(vault_ok, license))

\* Days the clock shows: the first day, the next, the trial's last day and
\* the day after it.
ClockDays == {Today + n : n \in {0, 1, trial_days, trial_days + 1}}

\* Key texts an operator can paste into the dialog: nothing, and the keys the
\* administrator generated on the first day for this machine and another.
PastedKeys ==
    {<<>>} \cup {generate_license_key(Emails[1], LicenseTypes[type], 365, h, Today)
                    \o <<10>> : type \in {2, 3}, h \in Hosts}
           \cup {generate_license_key(Emails[1], s_trial, 1, 1, Today)}

\* Trial licenses counted before the count stops.
MaxTrialsCounted == 2

LicInit ==
    /\ l_class = "LicenseValidator"
    /\ l_screen = "closed"
    /\ l_today = Today
    /\ l_license = <<>>
    /\ l_trial_started = FALSE
    /\ l_user_email = 0
    /\ l_message = "none"
    /\ l_trials_saved = 0

\* The application starts, an object of class cls behind
\* self.license_manager, and check_license_on_startup runs.  `email` is the
\* configured email (0: none); `yes` answers the "License Expired" question
\* when it is asked.
L_Startup(cls, vault_ok) ==
    LET on_status(license_status) ==
            \E email \in 0..1, yes \in BOOLEAN :
               /\ l_user_email' = email
               /\ l_message' =
                     CASE license_status.status = "invalid" -> "License Error"
                       [] license_status.status = "trial_expired" -> "License Expired"
                       [] OTHER -> "none"
               /\ l_screen' =
                     CASE license_status.status \in {"no_license", "invalid"} -> "dialog"
                       [] license_status.status = "trial_expired" ->
                              IF yes THEN "dialog" ELSE "closed"
                       [] OTHER -> "main"
    IN  /\ l_screen = "closed"
        /\ l_class' = cls
        /\ on_status(check_license_status(cls, vault_ok, l_license, l_trial_started,
                                          1, l_today))
        /\ UNCHANGED <<l_today, l_license, l_trial_started, l_trials_saved>>

\* "Activate License" with `text` in the key entry.
L_activate_license(text) ==
    LET validated(license_key, validation) ==
            IF validation.valid
            THEN \E vault_ok \in BOOLEAN :
                    /\ l_license' = IF vault_ok THEN license_key ELSE l_license
                    /\ l_message' = "License activated successfully!"
                    /\ l_screen' = "main"
            ELSE /\ l_message' = validation.error
                 /\ UNCHANGED <<l_screen, l_license>>
        entered(license_key) ==
            IF license_key = <<>>
            THEN /\ l_message' = "Please enter a license key"
                 /\ UNCHANGED <<l_screen, l_license>>
            ELSE validated(license_key,
                           validate_license_key(l_class, license_key, 1, l_today))
    IN  /\ l_screen = "dialog"
        /\ entered(Strip(text))
        /\ UNCHANGED <<l_class, l_today, l_trial_started, l_user_email, l_trials_saved>>

\* "Start Free Trial"; `answer` is what the operator enters when asked for
\* an email (0: nothing).
L_start_trial(vault_ok, answer) ==
    /\ l_screen = "dialog"
    /\ l_trials_saved < MaxTrialsCounted
    /\ IF l_class = "LicenseValidator"
       THEN /\ l_message' = "AttributeError"       \* no get_trial_status
            /\ UNCHANGED <<l_screen, l_license, l_trial_started, l_user_email,
                           l_trials_saved>>
       ELSE IF get_trial_status(vault_ok, l_trial_started)
       THEN /\ l_message' = "Trial period has already been used"
            /\ UNCHANGED <<l_screen, l_license, l_trial_started, l_user_email,
                           l_trials_saved>>
       ELSE IF l_user_email = 0 /\ answer = 0
       THEN UNCHANGED <<l_screen, l_license, l_trial_started, l_user_email,
                        l_message, l_trials_saved>>
       ELSE /\ l_user_email' = IF l_user_email = 0 THEN answer ELSE l_user_email
            /\ IF vault_ok                         \* start_trial: save_license
               THEN /\ l_license' = generate_license_key(Emails[l_user_email'], s_trial,
                                                         trial_days, 1, l_today)
                    /\ l_trial_started' = TRUE     \* set_trial_started
                    /\ l_trials_saved' = l_trials_saved + 1
                    /\ l_message' = "Trial Started"
                    /\ l_screen' = "main"
               ELSE /\ l_message' = "Could not start trial"
                    /\ UNCHANGED <<l_screen, l_license, l_trial_started, l_trials_saved>>
    /\ UNCHANGED <<l_class, l_today>>

\* The dialog's window is closed with the window manager's button.
L_CloseDialog ==
    /\ l_screen = "dialog"
    /\ l_screen' = "main"
    /\ UNCHANGED <<l_class, l_today, l_license, l_trial_started, l_user_email,
                   l_message, l_trials_saved>>

\* "Exit" in the dialog, or the main window is closed.
L_Quit ==
    /\ l_screen \in {"dialog", "main"}
    /\ l_screen' = "closed"
    /\ UNCHANGED <<l_class, l_today, l_license, l_trial_started, l_user_email,
                   l_message, l_trials_saved>>

\* The saved license alone is removed from the vault, or lost.
L_ClearSavedLicense ==
    /\ l_license # <<>>
    /\ l_license' = <<>>
    /\ UNCHANGED <<l_class, l_screen, l_today, l_trial_started, l_user_email,
                   l_message, l_trials_saved>>

\* Days pass.
L_AdvanceClock(day) ==
    /\ day > l_today
    /\ l_today' = day
    /\ UNCHANGED <<l_class, l_screen, l_license, l_trial_started, l_user_email,
                   l_message, l_trials_saved>>

LicNext ==
    \/ \E cls \in LicenseClasses, vault_ok \in BOOLEAN :
          L_Startup(cls, vault_ok) /\ UNCHANGED exceptLic
    \/ \E text \in PastedKeys : L_activate_license(text) /\ UNCHANGED exceptLic
    \/ \E vault_ok \in BOOLEAN, answer \in 0..Len(Emails) :
          L_start_trial(vault_ok, answer) /\ UNCHANGED exceptLic
    \/ L_CloseDialog /\ UNCHANGED exceptLic
    \/ L_Quit /\ UNCHANGED exceptLic
    \/ L_ClearSavedLicense /\ UNCHANGED exceptLic
    \/ \E day \in ClockDays : L_AdvanceClock(day) /\ UNCHANGED exceptLic

-----------------------------------------------------------------------------
(* comment_monitor.CommentMonitor: the baseline scan and the periodic      *)
(* check, against a backend whose comments are added and deleted.          *)

MaxMonTickets == 2
MaxComments == 3
MaxScans == 3

MonTickets == 1..MaxMonTickets
Authors == {"Ann", "Bob"}

\* The lists all_tickets can hold: tickets of the backend, each once.
MonCaches == {<<>>, <<1>>, <<2>>, <<1, 2>>, <<2, 1>>}

Range(seq) == {seq[i] : i \in 1..Len(seq)}

\* A list of ids that leaves out the newest comment.
comment_ids_but_newest(comments) ==
    [i \in 1..(Len(comments) - 1) |-> comments[i].id]

\* [c['id'] for c in comments]
comment_ids(comments) == [i \in 1..Len(comments) |-> comments[i].id]

\* dict assignment d[key] = value
dict_set(d, key, value) ==
    [k \in DOMAIN d \cup {key} |-> IF k = key THEN value ELSE d[k]]

\* _get_ticket_comments: the comments of the response, [] when the request
\* failed (make_jira_request returned None or raised) or there are none.
get_ticket_comments(server, failed, ticket_key) ==
    IF ticket_key \in failed THEN <<>> ELSE server[ticket_key]

\* _scan_current_tickets: the loop over all_tickets, giving known_comments.
RECURSIVE scan_current_tickets(_, _, _, _)
scan_current_tickets(tickets, known, server, failed) ==
    IF tickets = <<>> THEN known
    ELSE LET comments == get_ticket_comments(server, failed, Head(tickets))
         IN  scan_current_tickets(
                 Tail(tickets),
                 IF comments # <<>>
                 THEN dict_set(known, Head(tickets), comment_ids(comments))
                 ELSE known,
                 server, failed)

\* The entries _check_for_new_comments appends for one ticket.
new_entries(ticket_key, comments, known) ==
    IF ticket_key \in DOMAIN known
    THEN LET is_new(c) == c.id \notin Range(known[ticket_key])
             fresh == SelectSeq(comments, is_new)
         IN  [i \in 1..Len(fresh) |-> [ticket_key |-> ticket_key, comment |-> fresh[i]]]
    ELSE <<>>

\* _check_for_new_comments: the loop over all_tickets, giving
\* known_comments and new_comments_found.
RECURSIVE check_for_new_comments(_, _, _, _, _)
check_for_new_comments(tickets, known, found, server, failed) ==
    IF tickets = <<>> THEN [known |-> known, found |-> found]
    ELSE LET comments == get_ticket_comments(server, failed, Head(tickets))
         IN  IF comments = <<>>
             THEN check_for_new_comments(Tail(tickets), known, found, server, failed)
             ELSE check_for_new_comments(
                      Tail(tickets),
                      dict_set(known, Head(tickets), comment_ids(comments)),
                      found \o new_entries(Head(tickets), comments, known),
                      server, failed)

\* _show_notification: one line per pending entry.
notification_lines(pending) ==
    [i \in 1..Len(pending) |->
        [ticket_key |-> pending[i].ticket_key, author |-> pending[i].comment.author]]

\* list.remove(x): without the first element equal to x
list_remove(seq, x) ==
    LET first == CHOOSE i \in 1..Len(seq) :
                     seq[i] = x /\ \A j \in 1..(i - 1) : seq[j] # x
    IN  SubSeq(seq, 1, first - 1) \o SubSeq(seq, first + 1, Len(seq))

what_scan_saw(failed) ==
    [t \in Range(m_all_tickets) |-> get_ticket_comments(m_server, failed, t)]

MonInit ==
    /\ m_stage = "constructed"
    /\ m_all_tickets = <<>>
    /\ m_server = [t \in MonTickets |-> <<>>]
    /\ m_next_id = 1
    /\ m_known = <<>>
    /\ m_new_comments = <<>>
    /\ m_found = <<>>
    /\ m_listing = <<>>
    /\ m_scans = 0
    /\ m_scanned = <<>>
    /\ m_at_scan = [t \in MonTickets |-> <<>>]
    /\ m_seen = <<>>
    /\ m_reported = {}

\* The shell loads tickets: all_tickets is assigned a new list.
M_LoadTickets(tickets) ==
    /\ tickets # m_all_tickets
    /\ m_all_tickets' = tickets
    /\ UNCHANGED <<m_stage, m_server, m_next_id, m_known, m_new_comments,
                   m_found, m_listing, m_scans, m_scanned, m_at_scan, m_seen,
                   m_reported>>

\* Somebody comments on a ticket.
M_ServerAppend(ticket_key, author) ==
    /\ m_next_id <= MaxComments
    /\ m_server' = [m_server EXCEPT
           ![ticket_key] = Append(@, [id |-> m_next_id, author |-> author])]
    /\ m_next_id' = m_next_id + 1
    /\ UNCHANGED <<m_stage, m_all_tickets, m_known, m_new_comments, m_found,
                   m_listing, m_scans, m_scanned, m_at_scan, m_seen,
                   m_reported>>

\* Somebody deletes a comment.
M_ServerDelete(ticket_key, i) ==
    /\ i \in 1..Len(m_server[ticket_key])
    /\ m_server' = [m_server EXCEPT
           ![ticket_key] = SubSeq(@, 1, i - 1) \o SubSeq(@, i + 1, Len(@))]
    /\ UNCHANGED <<m_stage, m_all_tickets, m_next_id, m_known, m_new_comments,
                   m_found, m_listing, m_scans, m_scanned, m_at_scan, m_seen,
                   m_reported>>

\* start_monitoring and the first statement of _monitor_loop: the baseline.
M_start_monitoring(failed) ==
    /\ m_stage = "constructed"
    /\ m_stage' = "monitoring"
    /\ m_known' = scan_current_tickets(m_all_tickets, m_known, m_server, failed)
    /\ m_found' = <<>>
    /\ m_listing' = <<>>
    /\ m_scans' = 1
    /\ m_scanned' = m_all_tickets
    /\ m_at_scan' = m_server
    /\ m_seen' = what_scan_saw(failed)
    /\ UNCHANGED <<m_all_tickets, m_server, m_next_id, m_new_comments, m_reported>>

\* One round of _monitor_loop after the sleep: _check_for_new_comments and
\* the notification it schedules.
M_check_for_new_comments(failed) ==
    /\ m_stage = "monitoring"
    /\ m_scans < MaxScans
    /\ LET checked == check_for_new_comments(m_all_tickets, m_known, <<>>,
                                             m_server, failed)
       IN  /\ m_known' = checked.known
           /\ m_found' = checked.found
           /\ m_new_comments' = m_new_comments \o checked.found
           /\ m_listing' = IF checked.found # <<>>
                           THEN notification_lines(m_new_comments \o checked.found)
                           ELSE <<>>
           /\ m_reported' = m_reported \cup
                  {checked.found[i].comment.id : i \in 1..Len(checked.found)}
    /\ m_scans' = m_scans + 1
    /\ m_scanned' = m_all_tickets
    /\ m_at_scan' = m_server
    /\ m_seen' = what_scan_saw(failed)
    /\ UNCHANGED <<m_stage, m_all_tickets, m_server, m_next_id>>

\* "Dismiss All" in the notification window.
M_dismiss_all ==
    /\ m_new_comments # <<>>
    /\ m_new_comments' = <<>>
    /\ UNCHANGED <<m_stage, m_all_tickets, m_server, m_next_id, m_known,
                   m_found, m_listing, m_scans, m_scanned, m_at_scan, m_seen,
                   m_reported>>

\* "View Selected" in the notification window: _view_comment_detail.
M_view_selected(idx) ==
    /\ idx \in 1..Len(m_new_comments)
    /\ m_new_comments' = list_remove(m_new_comments, m_new_comments[idx])
    /\ UNCHANGED <<m_stage, m_all_tickets, m_server, m_next_id, m_known,
                   m_found, m_listing, m_scans, m_scanned, m_at_scan, m_seen,
                   m_reported>>

MonNext ==
    \/ \E tickets \in MonCaches : M_LoadTickets(tickets) /\ UNCHANGED exceptMon
    \/ \E t \in MonTickets, a \in Authors :
          M_ServerAppend(t, a) /\ UNCHANGED exceptMon
    \/ \E t \in MonTickets, i \in 1..MaxComments :
          M_ServerDelete(t, i) /\ UNCHANGED exceptMon
    \/ \E failed \in SUBSET MonTickets :
          M_start_monitoring(failed) /\ UNCHANGED exceptMon
    \/ \E failed \in SUBSET MonTickets :
          M_check_for_new_comments(failed) /\ UNCHANGED exceptMon
    \/ M_dismiss_all /\ UNCHANGED exceptMon
    \/ \E idx \in 1..MaxComments : M_view_selected(idx) /\ UNCHANGED exceptMon

-----------------------------------------------------------------------------
(* reminder_manager.ReminderManager: add, complete, snooze and the due     *)
(* scan, on a clock that counts hours.                                     *)

MaxReminders == 2
MaxHours == 3

\* The hour the manager is constructed: 22:00 on day Today.
FirstHour == Today * 24 + 22

\* Hours before or after now a new reminder is due.
DueOffsets == {0 - 2, 1}

\* datetime.isoformat() of the hour h: "YYYY-MM-DDTHH:00:00"
hour_isoformat(h) ==
    SubSeq(isoformat(h \div 24), 1, 11) \o two_digits(h % 24) \o <<58,48,48,58,48,48>>

\* datetime.fromisoformat(text) of such a text: its hour, -1 where the
\* text is no such date and time.
hour_fromisoformat(text) ==
    IF /\ Len(text) = 19
       /\ IsDigit(text[12]) /\ IsDigit(text[13])
       /\ digits_value(text, 12, 14, 0) < 24
       /\ SubSeq(text, 14, 19) = <<58,48,48,58,48,48>>
       /\ fromisoformat(SubSeq(text, 1, 11) \o <<48,57,58,48,48,58,48,48>>) >= 0
    THEN fromisoformat(SubSeq(text, 1, 11) \o <<48,57,58,48,48,58,48,48>>) * 24
         + digits_value(text, 12, 14, 0)
    ELSE 0 - 1

\* snoozed_until of a reminder that was never snoozed: None.
None == <<>>

\* The test get_due_reminders makes on one reminder, without the snooze.
is_due_ignoring_snooze(reminder, now) ==
    /\ ~reminder.completed
    /\ now >= hour_fromisoformat(reminder.due_date)

\* The test get_due_reminders makes on one reminder.
is_due(reminder, now) ==
    /\ ~reminder.completed
    /\ ~(reminder.snoozed_until # None
         /\ now < hour_fromisoformat(reminder.snoozed_until))
    /\ now >= hour_fromisoformat(reminder.due_date)

\* get_due_reminders: the due reminders, in list order.
get_due_reminders(reminders, now) ==
    LET due(reminder) == is_due(reminder, now)
    IN  SelectSeq(reminders, due)

reminder_ids(reminders) == [i \in 1..Len(reminders) |-> reminders[i].id]

\* The position of the first reminder with that id, 0 when there is none.
first_with_id(reminders, reminder_id) ==
    IF \E i \in 1..Len(reminders) : reminders[i].id = reminder_id
    THEN CHOOSE i \in 1..Len(reminders) :
             /\ reminders[i].id = reminder_id
             /\ \A j \in 1..(i - 1) : reminders[j].id # reminder_id
    ELSE 0

\* save_reminders: the file after the write, which can fail (logged only).
save_reminders(reminders, write_ok) == IF write_ok THEN reminders ELSE r_file

RemInit ==
    /\ r_now = FirstHour
    /\ r_reminders = <<>>
    /\ r_file = <<>>
    /\ r_times = <<>>
    /\ r_due = <<>>
    /\ r_fresh = FALSE

R_add_reminder(offset, write_ok) ==
    /\ Len(r_reminders) < MaxReminders
    /\ r_reminders' = Append(r_reminders,
           [id |-> Len(r_reminders) + 1,
            due_date |-> hour_isoformat(r_now + offset),
            completed |-> FALSE,
            snoozed_until |-> None])
    /\ r_file' = save_reminders(r_reminders', write_ok)
    /\ r_times' = Append(r_times, [due |-> r_now + offset, snoozed |-> 0 - 1])
    /\ r_fresh' = FALSE
    /\ UNCHANGED <<r_now, r_due>>

R_complete_reminder(reminder_id, write_ok) ==
    /\ first_with_id(r_reminders, reminder_id) # 0
    /\ r_reminders' = [r_reminders EXCEPT
           ![first_with_id(r_reminders, reminder_id)].completed = TRUE]
    /\ r_file' = save_reminders(r_reminders', write_ok)
    /\ r_fresh' = FALSE
    /\ UNCHANGED <<r_now, r_times, r_due>>

\* snooze_reminder with hours=1, as both windows call it.
R_snooze_reminder(reminder_id, write_ok) ==
    /\ first_with_id(r_reminders, reminder_id) # 0
    /\ r_reminders' = [r_reminders EXCEPT
           ![first_with_id(r_reminders, reminder_id)].snoozed_until =
               hour_isoformat(r_now + 1)]
    /\ r_file' = save_reminders(r_reminders', write_ok)
    /\ r_times' = [r_times EXCEPT
           ![first_with_id(r_reminders, reminder_id)].snoozed = r_now + 1]
    /\ r_fresh' = FALSE
    /\ UNCHANGED <<r_now, r_due>>

R_get_due_reminders ==
    /\ ~r_fresh
    /\ r_due' = reminder_ids(get_due_reminders(r_reminders, r_now))
    /\ r_fresh' = TRUE
    /\ UNCHANGED <<r_now, r_reminders, r_file, r_times>>

\* An hour passes.
R_HourPasses ==
    /\ r_now < FirstHour + MaxHours
    /\ r_now' = r_now + 1
    /\ r_fresh' = FALSE
    /\ UNCHANGED <<r_reminders, r_file, r_times, r_due>>

RemNext ==
    \/ \E offset \in DueOffsets, write_ok \in BOOLEAN :
          R_add_reminder(offset, write_ok) /\ UNCHANGED exceptRem
    \/ \E id \in 1..MaxReminders, write_ok \in BOOLEAN :
          R_complete_reminder(id, write_ok) /\ UNCHANGED exceptRem
    \/ \E id \in 1..MaxReminders, write_ok \in BOOLEAN :
          R_snooze_reminder(id, write_ok) /\ UNCHANGED exceptRem
    \/ R_get_due_reminders /\ UNCHANGED exceptRem
    \/ R_HourPasses /\ UNCHANGED exceptRem

-----------------------------------------------------------------------------
(* JiraTicketGUI_enhanced.assign_to_me: the user lookup, the three         *)
(* assignment requests and the patch of the cached ticket and its row.     *)

MaxAsgTickets == 2
MaxClicks == 2

AsgTickets == 1..MaxAsgTickets

\* What a make_jira_request call can return: the parsed body, the
\* {"success": True} of an empty body, or None.
Results == {"json", "success", "None"}

\* How a call that returns None ends: with one of these windows
\* (show_copyable_error), whatever the caller does next.
FailureTitles == {"Timeout Error", "API Error", "Error"}

\* The three request shapes, in the order of the code.
method1 == [endpoint |-> "issue/KEY/assignee", body |-> "accountId"]
method2 == [endpoint |-> "issue/KEY", body |-> "fields.assignee.accountId"]
method3 == [endpoint |-> "issue/KEY/assignee", body |-> "name"]
myself == [endpoint |-> "myself", body |-> "none"]

\* The windows a call raised, by what it returned.
request_dialogs(returned, title) == IF returned = "None" THEN <<title>> ELSE <<>>

\* A tail that patches the cached ticket and its row whatever was returned.
A_finish_unconditionally(returned) ==
    /\ a_cached' = [a_cached EXCEPT ![a_current_ticket] = "Me"]
    /\ a_rows' = [a_rows EXCEPT ![a_current_ticket] =
                     IF @ = "no row" THEN @ ELSE "Me"]
    /\ a_reloads' = a_reloads + 1
    /\ UNCHANGED <<a_server, a_current_ticket>>

\* The tail of assign_to_me, from `if result is not None:`.
A_finish(returned) ==
    IF returned # "None"
    THEN /\ a_cached' = [a_cached EXCEPT ![a_current_ticket] = "Me"]
         /\ a_rows' = [a_rows EXCEPT ![a_current_ticket] =
                          IF @ = "no row" THEN @ ELSE "Me"]
         /\ a_server' = [a_server EXCEPT ![a_current_ticket] = "Me"]
         /\ a_reloads' = a_reloads + 1
         /\ UNCHANGED a_current_ticket
    ELSE UNCHANGED <<a_cached, a_rows, a_server, a_reloads, a_current_ticket>>

AsgInit ==
    /\ a_pc = "idle"
    /\ a_current_ticket = 0
    /\ a_cached = [t \in AsgTickets |-> "Unassigned"]
    /\ a_rows = [t \in AsgTickets |-> "Unassigned"]
    /\ a_server = [t \in AsgTickets |-> "Unassigned"]
    /\ a_sent = <<>>
    /\ a_results = <<>>
    /\ a_dialogs = <<>>
    /\ a_reloads = 0
    /\ a_clicks = 0

\* The operator selects a row (0: the selection is cleared).
A_Select(t) ==
    /\ a_pc \in {"idle", "done"}
    /\ t # a_current_ticket
    /\ t # 0 => a_rows[t] # "no row"
    /\ a_current_ticket' = t
    /\ UNCHANGED <<a_pc, a_cached, a_rows, a_server, a_sent, a_results,
                   a_dialogs, a_reloads, a_clicks>>

\* A search or filter leaves the selected ticket without a row, or a
\* reload brings the rows back as the backend has them.
A_RowsChange(t, shown) ==
    /\ a_pc \in {"idle", "done"}
    /\ IF shown
       THEN /\ a_rows[t] = "no row"
            /\ a_rows' = [a_rows EXCEPT ![t] = a_server[t]]
            /\ a_cached' = [a_cached EXCEPT ![t] = a_server[t]]
       ELSE /\ a_rows[t] # "no row"
            /\ a_rows' = [a_rows EXCEPT ![t] = "no row"]
            /\ UNCHANGED a_cached
    /\ UNCHANGED <<a_pc, a_current_ticket, a_server, a_sent, a_results,
                   a_dialogs, a_reloads, a_clicks>>

\* Somebody else is made the assignee on the backend.
A_ServerAssign(t) ==
    /\ a_pc \in {"idle", "done"}
    /\ a_server[t] # "Other"
    /\ a_server' = [a_server EXCEPT ![t] = "Other"]
    /\ UNCHANGED <<a_pc, a_current_ticket, a_cached, a_rows, a_sent,
                   a_results, a_dialogs, a_reloads, a_clicks>>

\* The click, up to and including the "myself" request.
A_assign_to_me(returned, title, has_account_id) ==
    /\ a_pc \in {"idle", "done"}
    /\ a_clicks < MaxClicks
    /\ a_clicks' = a_clicks + 1
    /\ a_reloads' = 0
    /\ IF a_current_ticket = 0
       THEN /\ a_sent' = <<>>
            /\ a_results' = <<>>
            /\ a_dialogs' = <<"No ticket selected">>
            /\ a_pc' = "done"
       ELSE /\ a_sent' = <<myself>>
            /\ a_results' = <<returned>>
            /\ IF returned = "None"
               THEN /\ a_dialogs' = <<title, "Failed to get user information">>
                    /\ a_pc' = "done"
               ELSE IF returned = "success" \/ ~has_account_id
               THEN /\ a_dialogs' = <<"Could not get your account ID">>
                    /\ a_pc' = "done"
               ELSE /\ a_dialogs' = <<>>
                    /\ a_pc' = "method1"
    /\ UNCHANGED <<a_current_ticket, a_cached, a_rows, a_server>>

\* Method 1, and the end of the handler when it succeeded.
A_Method1(returned, title) ==
    /\ a_pc = "method1"
    /\ a_sent' = Append(a_sent, method1)
    /\ a_results' = Append(a_results, returned)
    /\ a_dialogs' = a_dialogs \o request_dialogs(returned, title)
    /\ a_pc' = IF returned = "None" THEN "method2" ELSE "done"
    /\ A_finish(returned)
    /\ UNCHANGED a_clicks

\* Method 2, tried when method 1 returned None.
A_Method2(returned, title) ==
    /\ a_pc = "method2"
    /\ a_sent' = Append(a_sent, method2)
    /\ a_results' = Append(a_results, returned)
    /\ a_dialogs' = a_dialogs \o request_dialogs(returned, title)
    /\ a_pc' = IF returned = "None" THEN "method3" ELSE "done"
    /\ A_finish(returned)
    /\ UNCHANGED a_clicks

\* Method 3, tried when method 2 returned None, and the end of the handler.
A_Method3(returned, title) ==
    /\ a_pc = "method3"
    /\ a_sent' = Append(a_sent, method3)
    /\ a_results' = Append(a_results, returned)
    /\ a_dialogs' = a_dialogs \o request_dialogs(returned, title)
                    \o (IF returned = "None"
                        THEN <<"Failed to assign ticket. Check the debug output for details.">>
                        ELSE <<>>)
    /\ a_pc' = "done"
    /\ A_finish(returned)
    /\ UNCHANGED a_clicks

AsgNext ==
    \/ \E t \in 0..MaxAsgTickets : A_Select(t) /\ UNCHANGED exceptAsg
    \/ \E t \in AsgTickets, shown \in BOOLEAN :
          A_RowsChange(t, shown) /\ UNCHANGED exceptAsg
    \/ \E t \in AsgTickets : A_ServerAssign(t) /\ UNCHANGED exceptAsg
    \/ \E returned \in Results, title \in FailureTitles, has_id \in BOOLEAN :
          A_assign_to_me(returned, title, has_id) /\ UNCHANGED exceptAsg
    \/ \E returned \in Results, title \in FailureTitles :
          A_Method1(returned, title) /\ UNCHANGED exceptAsg
    \/ \E returned \in Results, title \in FailureTitles :
          A_Method2(returned, title) /\ UNCHANGED exceptAsg
    \/ \E returned \in Results, title \in FailureTitles :
          A_Method3(returned, title) /\ UNCHANGED exceptAsg

-----------------------------------------------------------------------------
(* JiraTicketGUI_enhanced.create_ticket: the three creation payloads and   *)
(* the follow-up comment.                                                   *)

MaxCreateClicks == 2

\* What the operator can have typed: summary and description, as the
\* widgets return them (the text widget ends its content with a newline).
Summaries == {<<>>, <<32>>, <<32, 83>>}
Descriptions == {<<10>>, <<32, 10>>, <<68, 10>>, <<32, 68, 101, 10>>}

\* What POST issue can return: the created issue with its key, or None.
CreateResults == {"json", "None"}

\* The request bodies, as far as the description goes.
ticket_data_1(description) == [endpoint |-> "issue", format |-> "adf", text |-> description]
ticket_data_2(description) == [endpoint |-> "issue", format |-> "plain", text |-> description]
ticket_data_3(description) == [endpoint |-> "issue", format |-> "absent", text |-> <<>>]
comment_data(ticket, description) ==
    [endpoint |-> "issue/KEY/comment", ticket |-> ticket, format |-> "adf",
     text |-> description]

\* A follow-up test that is never met.
follow_up_never(returned, description) == FALSE

\* `if result and description.strip():`
follow_up(returned, description) == returned # "None" /\ Strip(description) # <<>>

\* The backend after a POST issue that returned the created issue.
created(backend, returned, data) ==
    IF returned = "None" THEN backend
    ELSE Append(backend, [description |-> data.text, comments |-> <<>>])

CrtInit ==
    /\ c_pc = "dialog"
    /\ c_description = <<>>
    /\ c_sent = <<>>
    /\ c_results = <<>>
    /\ c_dialogs = <<>>
    /\ c_backend = <<>>
    /\ c_window_open = TRUE
    /\ c_clicks = 0

\* The click, up to and including the "myself" request.
C_create_ticket(summary, description, returned, title) ==
    /\ c_pc \in {"dialog", "done"}
    /\ c_window_open
    /\ c_clicks < MaxCreateClicks
    /\ c_clicks' = c_clicks + 1
    /\ c_description' = Strip(description)
    /\ IF Strip(summary) = <<>>
       THEN /\ c_sent' = <<>>
            /\ c_results' = <<>>
            /\ c_dialogs' = <<"Missing Summary">>
            /\ c_pc' = "done"
       ELSE /\ c_sent' = <<myself>>
            /\ c_results' = <<returned>>
            /\ IF returned = "None"
               THEN /\ c_dialogs' = <<title, "Failed to get user information">>
                    /\ c_pc' = "done"
               ELSE /\ c_dialogs' = <<>>
                    /\ c_pc' = "method1"
    /\ UNCHANGED <<c_backend, c_window_open>>

\* Method 1: the description as a rich document.
C_Method1(returned, title) ==
    /\ c_pc = "method1"
    /\ c_sent' = Append(c_sent, ticket_data_1(c_description))
    /\ c_results' = Append(c_results, returned)
    /\ c_dialogs' = c_dialogs \o request_dialogs(returned, title)
    /\ c_backend' = created(c_backend, returned, ticket_data_1(c_description))
    /\ c_pc' = IF returned = "None" THEN "method2" ELSE "finish"
    /\ UNCHANGED <<c_description, c_window_open, c_clicks>>

\* Method 2: the description as a plain string.
C_Method2(returned, title) ==
    /\ c_pc = "method2"
    /\ c_sent' = Append(c_sent, ticket_data_2(c_description))
    /\ c_results' = Append(c_results, returned)
    /\ c_dialogs' = c_dialogs \o request_dialogs(returned, title)
    /\ c_backend' = created(c_backend, returned, ticket_data_2(c_description))
    /\ c_pc' = IF returned = "None" THEN "method3" ELSE "finish"
    /\ UNCHANGED <<c_description, c_window_open, c_clicks>>

\* Method 3: no description.
C_Method3(returned, title) ==
    /\ c_pc = "method3"
    /\ c_sent' = Append(c_sent, ticket_data_3(c_description))
    /\ c_results' = Append(c_results, returned)
    /\ c_dialogs' = c_dialogs \o request_dialogs(returned, title)
    /\ c_backend' = created(c_backend, returned, ticket_data_3(c_description))
    /\ c_pc' = IF follow_up(returned, c_description) THEN "comment" ELSE "finish"
    /\ UNCHANGED <<c_description, c_window_open, c_clicks>>

\* The follow-up comment; what it returns is not looked at.
C_FollowUpComment(returned, title) ==
    /\ c_pc = "comment"
    /\ c_sent' = Append(c_sent, comment_data(Len(c_backend), c_description))
    /\ c_results' = Append(c_results, returned)
    /\ c_dialogs' = c_dialogs \o request_dialogs(returned, title)
    /\ c_backend' = IF returned = "None" THEN c_backend
                    ELSE [c_backend EXCEPT ![Len(c_backend)].comments =
                             Append(@, c_description)]
    /\ c_pc' = "finish"
    /\ UNCHANGED <<c_description, c_window_open, c_clicks>>

\* The end of the handler, from `if result:`; result is that of the last
\* POST issue.
C_Finish ==
    /\ c_pc = "finish"
    /\ LET last_result ==
               IF c_sent[Len(c_sent)].endpoint = "issue"
               THEN c_results[Len(c_sent)] ELSE c_results[Len(c_sent) - 1]
       IN  IF last_result # "None"
           THEN /\ c_dialogs' = Append(c_dialogs, "Success")
                /\ c_window_open' = FALSE
           ELSE /\ c_dialogs' = Append(c_dialogs, "Failed to create ticket")
                /\ UNCHANGED c_window_open
    /\ c_pc' = "done"
    /\ UNCHANGED <<c_description, c_sent, c_results, c_backend, c_clicks>>

\* The operator opens the New Ticket dialog again.
C_OpenDialog ==
    /\ c_pc = "done"
    /\ ~c_window_open
    /\ c_window_open' = TRUE
    /\ UNCHANGED <<c_pc, c_description, c_sent, c_results, c_dialogs,
                   c_backend, c_clicks>>

CrtNext ==
    \/ \E summary \in Summaries, description \in Descriptions,
          returned \in Results, title \in FailureTitles :
          C_create_ticket(summary, description, returned, title) /\ UNCHANGED exceptCrt
    \/ \E returned \in CreateResults, title \in FailureTitles :
          C_Method1(returned, title) /\ UNCHANGED exceptCrt
    \/ \E returned \in CreateResults, title \in FailureTitles :
          C_Method2(returned, title) /\ UNCHANGED exceptCrt
    \/ \E returned \in CreateResults, title \in FailureTitles :
          C_Method3(returned, title) /\ UNCHANGED exceptCrt
    \/ \E returned \in Results, title \in FailureTitles :
          C_FollowUpComment(returned, title) /\ UNCHANGED exceptCrt
    \/ C_Finish /\ UNCHANGED exceptCrt
    \/ C_OpenDialog /\ UNCHANGED exceptCrt

-----------------------------------------------------------------------------
(* user_management.UserManagementSystem: the quick-mention list, its       *)
(* dialogs and its file.  A Python tuple and a Python list with the same  *)
(* items are different values: (n, e) == [n, e] is False.                  *)

MaxMentions == 3
MaxQmSteps == 6

\* The people of the backend's user directory, and what the Add dialog's
\* two entries can hold after strip().
People == {[name |-> "Ann", email |-> "ann@x.io"], [name |-> "Bob", email |-> "bob@x.io"]}
EnteredNames == {"", "Ann", "Bob"}
EnteredEmails == {"", "ann@x.io", "bob@x.io", "bob@x"}

\* utils.validate_email on those texts: local part, "@", domain, ".", tld.
validate_email(email) == email \in {"ann@x.io", "bob@x.io"}

\* config.DEFAULT_QUICK_MENTIONS
DEFAULT_QUICK_MENTIONS ==
    <<[kind |-> "tuple", name |-> "Will Sessions", email |-> "will.sessions@medemgroup.com"]>>

\* The Python value (name, email).
py_tuple(name, email) == [kind |-> "tuple", name |-> name, email |-> email]

\* x in list: some item equals x, as Python compares them.
py_in(x, list) == \E i \in 1..Len(list) : list[i] = x

\* A membership test that looks at the items' name and email only.
py_in_by_items(x, list) ==
    \E i \in 1..Len(list) : list[i].name = x.name /\ list[i].email = x.email

\* json.dump: tuples and lists both become arrays.
json_dump(mentions) ==
    [i \in 1..Len(mentions) |-> <<mentions[i].name, mentions[i].email>>]

\* json.load: arrays become lists.
json_load(array) ==
    [i \in 1..Len(array) |-> [kind |-> "list", name |-> array[i][1], email |-> array[i][2]]]

\* utils.load_quick_mentions: the file's list, or the default list object.
load_quick_mentions(file, default) ==
    IF file.exists THEN json_load(file.content) ELSE default

\* utils.save_quick_mentions
save_quick_mentions(mentions) == [exists |-> TRUE, content |-> json_dump(mentions)]

\* del list[index], with Python's index from 0
py_del(list, index) == SubSeq(list, 1, index) \o SubSeq(list, index + 2, Len(list))

\* add_selected_users_to_mentions: the loop over the selected rows.
RECURSIVE add_selected(_, _)
add_selected(rows, mentions) ==
    IF rows = <<>> THEN mentions
    ELSE add_selected(
             Tail(rows),
             IF py_in(py_tuple(Head(rows).name, Head(rows).email), mentions)
             THEN mentions
             ELSE Append(mentions, py_tuple(Head(rows).name, Head(rows).email)))

\* The selected rows of the team window, in listbox order.
TeamSelections ==
    {<<>>,
     <<[name |-> "Ann", email |-> "ann@x.io"]>>,
     <<[name |-> "Bob", email |-> "bob@x.io"]>>,
     <<[name |-> "Ann", email |-> "ann@x.io"], [name |-> "Bob", email |-> "bob@x.io"]>>}

\* A list that is the default object changes the default with it.
default_after(mentions) == IF q_aliased THEN mentions ELSE q_default

QmInit ==
    /\ q_file = [exists |-> FALSE, content |-> <<>>]
    /\ q_default = DEFAULT_QUICK_MENTIONS
    /\ q_mentions = DEFAULT_QUICK_MENTIONS
    /\ q_aliased = TRUE
    /\ q_dialog = "none"
    /\ q_message = "none"
    /\ q_readd = FALSE
    /\ q_mutated = FALSE
    /\ q_steps = 0

\* A fresh UserManagementSystem: __init__ loads the list; in a new process
\* the default list is the one of config.py again.
Q_NewManager(new_process) ==
    /\ q_dialog = "none"
    /\ q_steps < MaxQmSteps
    /\ q_steps' = q_steps + 1
    /\ q_default' = IF new_process THEN DEFAULT_QUICK_MENTIONS ELSE q_default
    /\ q_mentions' = load_quick_mentions(q_file, q_default')
    /\ q_aliased' = ~q_file.exists
    /\ q_message' = "none"
    /\ q_readd' = FALSE
    /\ q_mutated' = FALSE
    /\ UNCHANGED <<q_file, q_dialog>>

\* manage_quick_mentions opens the management dialog.
Q_manage_quick_mentions ==
    /\ q_dialog = "none"
    /\ q_steps < MaxQmSteps
    /\ q_steps' = q_steps + 1
    /\ q_dialog' = "manage"
    /\ q_readd' = FALSE
    /\ UNCHANGED <<q_file, q_default, q_mentions, q_aliased, q_message, q_mutated>>

\* "Add" in the Add Quick Mention dialog: save_mention.
Q_save_mention(name, email) ==
    /\ q_dialog = "manage"
    /\ q_steps < MaxQmSteps
    /\ Len(q_mentions) < MaxMentions
    /\ q_steps' = q_steps + 1
    /\ q_readd' = py_in_by_items(py_tuple(name, email), q_mentions)
    /\ IF name = "" \/ email = ""
       THEN /\ q_message' = "Both name and email are required"
            /\ UNCHANGED <<q_mentions, q_default, q_mutated>>
       ELSE IF ~validate_email(email)
       THEN /\ q_message' = "Please enter a valid email address"
            /\ UNCHANGED <<q_mentions, q_default, q_mutated>>
       ELSE IF py_in(py_tuple(name, email), q_mentions)
       THEN /\ q_message' = "This mention already exists"
            /\ UNCHANGED <<q_mentions, q_default, q_mutated>>
       ELSE /\ q_mentions' = Append(q_mentions, py_tuple(name, email))
            /\ q_default' = default_after(q_mentions')
            /\ q_mutated' = TRUE
            /\ q_message' = "none"
    /\ UNCHANGED <<q_file, q_aliased, q_dialog>>

\* "Remove" in the management dialog: remove_mention, confirmed or not.
Q_remove_mention(index, confirmed) ==
    /\ q_dialog = "manage"
    /\ q_steps < MaxQmSteps
    /\ index < Len(q_mentions)
    /\ q_steps' = q_steps + 1
    /\ q_readd' = FALSE
    /\ q_message' = "Confirm"
    /\ IF confirmed
       THEN /\ q_mentions' = py_del(q_mentions, index)
            /\ q_default' = default_after(q_mentions')
            /\ q_mutated' = TRUE
       ELSE UNCHANGED <<q_mentions, q_default, q_mutated>>
    /\ UNCHANGED <<q_file, q_aliased, q_dialog>>

\* "Save & Close" in the management dialog.
Q_save_and_close ==
    /\ q_dialog = "manage"
    /\ q_file' = save_quick_mentions(q_mentions)
    /\ q_dialog' = "none"
    /\ q_readd' = FALSE
    /\ UNCHANGED <<q_default, q_mentions, q_aliased, q_message, q_mutated, q_steps>>

\* "Cancel" in the management dialog, or its close button: the window is
\* destroyed.
Q_CancelManage ==
    /\ q_dialog = "manage"
    /\ q_dialog' = "none"
    /\ q_readd' = FALSE
    /\ UNCHANGED <<q_file, q_default, q_mentions, q_aliased, q_message, q_mutated,
                   q_steps>>

\* "Load from Team" in the management dialog, or "Get Team List" in the
\* main window: the Select Team Members window opens.
Q_get_team_members ==
    /\ q_dialog \in {"none", "manage"}
    /\ q_steps < MaxQmSteps
    /\ q_steps' = q_steps + 1
    /\ q_dialog' = "team"
    /\ q_readd' = FALSE
    /\ UNCHANGED <<q_file, q_default, q_mentions, q_aliased, q_message, q_mutated>>

\* "Add Selected to Quick Mentions" in the team window.
Q_add_selected_users_to_mentions(selection) ==
    /\ q_dialog = "team"
    /\ q_steps < MaxQmSteps
    /\ Len(q_mentions) + Len(selection) <= MaxMentions
    /\ q_steps' = q_steps + 1
    /\ q_readd' = FALSE
    /\ IF selection = <<>>
       THEN /\ q_message' = "Please select users to add"
            /\ UNCHANGED <<q_file, q_default, q_mentions, q_mutated, q_dialog>>
       ELSE /\ q_mentions' = add_selected(selection, q_mentions)
            /\ q_default' = default_after(q_mentions')
            /\ IF Len(q_mentions') > Len(q_mentions)
               THEN /\ q_file' = save_quick_mentions(q_mentions')
                    /\ q_mutated' = TRUE
                    /\ q_message' = "Added users to quick mentions"
                    /\ q_dialog' = "none"
               ELSE /\ q_message' = "Selected users are already in quick mentions"
                    /\ UNCHANGED <<q_file, q_mutated, q_dialog>>
    /\ UNCHANGED q_aliased

\* "Close" in the team window.
Q_CloseTeam ==
    /\ q_dialog = "team"
    /\ q_dialog' = "none"
    /\ q_readd' = FALSE
    /\ UNCHANGED <<q_file, q_default, q_mentions, q_aliased, q_message, q_mutated,
                   q_steps>>

\* The small remove button beside a quick-mention button of the main
\* window: remove_quick_mention, confirmed or not.
Q_remove_quick_mention(index, confirmed) ==
    /\ q_dialog = "none"
    /\ q_steps < MaxQmSteps
    /\ index < Len(q_mentions)
    /\ q_steps' = q_steps + 1
    /\ q_readd' = FALSE
    /\ q_message' = "Confirm"
    /\ IF confirmed
       THEN /\ q_mentions' = py_del(q_mentions, index)
            /\ q_default' = default_after(q_mentions')
            /\ q_file' = save_quick_mentions(q_mentions')
            /\ q_mutated' = TRUE
       ELSE UNCHANGED <<q_mentions, q_default, q_file, q_mutated>>
    /\ UNCHANGED <<q_aliased, q_dialog>>

QmNext ==
    \/ \E new_process \in BOOLEAN : Q_NewManager(new_process) /\ UNCHANGED exceptQm
    \/ Q_manage_quick_mentions /\ UNCHANGED exceptQm
    \/ \E name \in EnteredNames, email \in EnteredEmails :
          Q_save_mention(name, email) /\ UNCHANGED exceptQm
    \/ \E index \in 0..(MaxMentions - 1), confirmed \in BOOLEAN :
          Q_remove_mention(index, confirmed) /\ UNCHANGED exceptQm
    \/ Q_save_and_close /\ UNCHANGED exceptQm
    \/ Q_CancelManage /\ UNCHANGED exceptQm
    \/ Q_get_team_members /\ UNCHANGED exceptQm
    \/ \E selection \in TeamSelections :
          Q_add_selected_users_to_mentions(selection) /\ UNCHANGED exceptQm
    \/ Q_CloseTeam /\ UNCHANGED exceptQm
    \/ \E index \in 0..(MaxMentions - 1), confirmed \in BOOLEAN :
          Q_remove_quick_mention(index, confirmed) /\ UNCHANGED exceptQm

-----------------------------------------------------------------------------
(* search_filter.SearchFilterManager.filter_tickets, wired to the modular  *)
(* shell's update_ticket_list as its update_tickets_callback.              *)

\* config.TICKET_FILTER_OPTIONS
TICKET_FILTER_OPTIONS == {"All Tickets", "My Tickets", "Unassigned"}

\* `status in completed_statuses`: the lowercased status name is one of the
\* list's items.  Tabulated for every ticket.
status_in_completed_statuses ==
    [i \in TicketIds |->
        \E k \in 1..Len(completed_statuses) :
            Lower(StatusName(i)) = completed_statuses[k]]

\* The loop body of filter_tickets: TRUE when the issue reaches
\* tickets_to_show.append(issue).
S_Keep(i, tf, itf, hide) ==
    /\ (tf = "My Tickets" => user_email \in {ReporterEmail(i), AssigneeEmail(i)})
    /\ (tf = "Unassigned" => AssigneeEmail(i) = "")
    /\ (itf # "All" => TypeName(i) = itf)
    /\ (hide => ~status_in_completed_statuses[i])

SfInit ==
    /\ s_all_tickets = <<>>
    /\ s_tree = <<>>
    /\ s_ticket_filter = "All Tickets"
    /\ s_issue_type = "All"
    /\ s_hide_completed = FALSE
    /\ s_status = "none"
    /\ s_last = "none"

\* A load or reload delivers issues: the shell's update_ticket_list stores
\* them, hands them to set_tickets and fills the table.
S_LoadDelivered(issues) ==
    /\ s_all_tickets' = issues
    /\ s_tree' = issues
    /\ s_status' = "none"
    /\ s_last' = "load"
    /\ UNCHANGED <<s_ticket_filter, s_issue_type, s_hide_completed>>

\* The operator changes a filter widget, which calls filter_tickets; the
\* callback stores the tickets kept as the new all_tickets.
S_filter_tickets(tf, itf, hide) ==
    /\ s_ticket_filter' = tf
    /\ s_issue_type' = itf
    /\ s_hide_completed' = hide
    /\ s_last' = "filter"
    /\ IF s_all_tickets = <<>>
       THEN UNCHANGED <<s_all_tickets, s_tree, s_status>>
       ELSE LET keep(i) == S_Keep(i, tf, itf, hide)
                tickets_to_show == SelectSeq(s_all_tickets, keep)
            IN  /\ s_all_tickets' = tickets_to_show
                /\ s_tree' = tickets_to_show
                /\ s_status' = IF Len(tickets_to_show) = Len(s_all_tickets)
                               THEN "all" ELSE "filtered"

SfNext ==
    \/ \E issues \in IssueLists : S_LoadDelivered(issues) /\ UNCHANGED exceptSf
    \/ \E tf \in TICKET_FILTER_OPTIONS, itf \in IssueTypeFilters, hide \in BOOLEAN :
          S_filter_tickets(tf, itf, hide) /\ UNCHANGED exceptSf

-----------------------------------------------------------------------------
(* Failure paths of three operations: JiraTicketGUI_enhanced.upload_-      *)
(* attachments, utils.save_quick_mentions behind add_selected_users_to_-   *)
(* mentions, and LicenseValidator.save_license behind activate_license.    *)

MaxAttachments == 3

\* What the upload of a picked file will meet: the file is gone
\* (os.path.exists is False), open() raises, the server rejects the request
\* (make_jira_request returns None), or the upload succeeds.
FileKinds == {"ok", "missing", "unreadable", "rejected"}

\* One pass of the loop body of upload_attachments for one file:
\* the dialogs it opens (make_jira_request opens "API Error" itself).
upload_dialogs(kind) == IF kind = "rejected" THEN <<"API Error">> ELSE <<>>

\* ... and the lines it prints.
upload_prints(kind) ==
    CASE kind = "ok"         -> {"Uploaded attachment"}
      [] kind = "rejected"   -> {"Failed to upload"}
      [] kind = "unreadable" -> {"Error uploading"}
      [] OTHER               -> {}

RECURSIVE all_upload_dialogs(_)
all_upload_dialogs(files) ==
    IF files = <<>> THEN <<>>
    ELSE upload_dialogs(Head(files)) \o all_upload_dialogs(Tail(files))

FailInit ==
    /\ f_attachments = <<>>
    /\ f_dialogs = <<>>
    /\ f_printed = {}
    /\ f_failed = {}
    /\ f_handler = "none"

\* browse_file: the chosen file joins self.attachments.
F_browse_file(kind) ==
    /\ Len(f_attachments) < MaxAttachments
    /\ f_attachments' = Append(f_attachments, kind)
    /\ f_dialogs' = <<>>
    /\ f_printed' = {}
    /\ f_failed' = {}
    /\ f_handler' = "browse_file"

\* remove_attachment(index)
F_remove_attachment(index) ==
    /\ index \in 1..Len(f_attachments)
    /\ f_attachments' = [k \in 1..(Len(f_attachments) - 1) |->
                            IF k < index THEN f_attachments[k] ELSE f_attachments[k + 1]]
    /\ f_dialogs' = <<>>
    /\ f_printed' = {}
    /\ f_failed' = {}
    /\ f_handler' = "remove_attachment"

\* The tail of create_ticket once the ticket was created: the Success
\* dialog, then upload_attachments over every picked file, then the list is
\* cleared.
F_create_ticket_created ==
    /\ f_dialogs' = <<"Success">> \o all_upload_dialogs(f_attachments)
    /\ f_printed' = UNION {upload_prints(f_attachments[k]) : k \in 1..Len(f_attachments)}
    /\ f_failed' = {"upload" : k \in {j \in 1..Len(f_attachments) :
                                        f_attachments[j] \in {"unreadable", "rejected"}}}
    /\ f_attachments' = <<>>
    /\ f_handler' = "create_ticket"

\* add_selected_users_to_mentions with at least one new user: the wrapper
\* drops the result of utils.save_quick_mentions and the Success dialog
\* follows.
F_add_selected_users(write_ok) ==
    /\ f_dialogs' = <<"Success">>
    /\ f_printed' = IF write_ok THEN {} ELSE {"Could not save quick mentions"}
    /\ f_failed' = IF write_ok THEN {} ELSE {"save_quick_mentions"}
    /\ f_handler' = "add_selected_users_to_mentions"
    /\ UNCHANGED f_attachments

\* activate_license with a valid key: the result of save_license is dropped
\* and the Success dialog follows.
F_activate_license(keyring_ok) ==
    /\ f_dialogs' = <<"Success">>
    /\ f_printed' = IF keyring_ok THEN {} ELSE {"Could not save license"}
    /\ f_failed' = IF keyring_ok THEN {} ELSE {"save_license"}
    /\ f_handler' = "activate_license"
    /\ UNCHANGED f_attachments

FailNext ==
    \/ \E kind \in FileKinds : F_browse_file(kind) /\ UNCHANGED exceptFail
    \/ \E index \in 1..MaxAttachments : F_remove_attachment(index) /\ UNCHANGED exceptFail
    \/ F_create_ticket_created /\ UNCHANGED exceptFail
    \/ \E write_ok \in BOOLEAN : F_add_selected_users(write_ok) /\ UNCHANGED exceptFail
    \/ \E keyring_ok \in BOOLEAN : F_activate_license(keyring_ok) /\ UNCHANGED exceptFail

-----------------------------------------------------------------------------
(* JiraTicketGUI.on_ticket_select and load_full_ticket_details: every row  *)
(* selection starts one daemon thread that fetches the comments of the     *)
(* selected key and queues update_comments with root.after(0, ...).        *)

MaxSelections == 3
MaxSelTickets == 2
SelTickets == 1..MaxSelTickets

SelInit ==
    /\ d_current_ticket = 0
    /\ d_details = 0
    /\ d_comments = 0
    /\ d_threads = [t \in SelTickets |-> 0]
    /\ d_after = <<>>
    /\ d_selections = 0

\* on_ticket_select with a selected row: current_ticket, the details from
\* the cached issue (show_ticket_details_fast, which also writes "Loading
\* comments..."), and a new thread for the comments.
D_on_ticket_select(ticket_key) ==
    /\ d_selections < MaxSelections
    /\ d_selections' = d_selections + 1
    /\ d_current_ticket' = ticket_key
    /\ d_details' = ticket_key
    /\ d_comments' = 0
    /\ d_threads' = [d_threads EXCEPT ![ticket_key] = @ + 1]
    /\ UNCHANGED d_after

\* load_full_ticket_details in its thread: the request returns and
\* update_comments is queued; threads finish in any order.
D_load_full_ticket_details(ticket_key) ==
    /\ d_threads[ticket_key] > 0
    /\ d_threads' = [d_threads EXCEPT ![ticket_key] = @ - 1]
    /\ d_after' = Append(d_after, ticket_key)
    /\ UNCHANGED <<d_current_ticket, d_details, d_comments, d_selections>>

\* update_comments on the UI loop: the comments pane is cleared and filled
\* with the comments fetched for the thread's ticket_key.
D_update_comments ==
    /\ d_after # <<>>
    /\ d_comments' = Head(d_after)
    /\ d_after' = Tail(d_after)
    /\ UNCHANGED <<d_current_ticket, d_details, d_threads, d_selections>>

SelNext ==
    \/ \E ticket_key \in SelTickets : D_on_ticket_select(ticket_key) /\ UNCHANGED exceptSel
    \/ \E ticket_key \in SelTickets : D_load_full_ticket_details(ticket_key) /\ UNCHANGED exceptSel
    \/ D_update_comments /\ UNCHANGED exceptSel

-----------------------------------------------------------------------------
(* JiraTicketGUI_enhanced.add_comment_to_ticket: up to three payloads, each *)
(* posted through make_jira_request with its retry loop, against a backend *)
(* that stores a comment whenever it processes a POST.                     *)

MaxCommentActions == 2

\* Whether the backend can have processed the POST of an attempt that ended
\* as o: it has for a 2xx response, it has not for an error response or a
\* connection failure, and for a Timeout either is possible (the request
\* was or was not handled before the client gave up waiting).
CanBeProcessed(o) ==
    CASE o.kind = "response" /\ o.status < 400 -> {TRUE}
      [] IsTimeout(o)                          -> {TRUE, FALSE}
      [] OTHER                                 -> {FALSE}

CmtInit ==
    /\ w_pc = "idle"
    /\ w_method = 1
    /\ w_attempt = 0
    /\ w_stored = 0
    /\ w_result = "pending"
    /\ w_actions = 0

\* The operator submits one comment: add_comment_to_ticket starts with
\* Method 1.
W_add_comment_to_ticket ==
    /\ w_pc \in {"idle", "returned"}
    /\ w_actions < MaxCommentActions
    /\ w_actions' = w_actions + 1
    /\ w_pc' = "attempt"
    /\ w_method' = 1
    /\ w_attempt' = 0
    /\ w_stored' = 0
    /\ w_result' = "pending"

\* One iteration of make_jira_request's loop for the current payload, and
\* what add_comment_to_ticket does when the call returns: `result is None`
\* moves on to the next payload, anything else ends the sequence.
W_Attempt(o, processed) ==
    /\ w_pc = "attempt"
    /\ processed \in CanBeProcessed(o)
    /\ w_stored' = IF processed THEN w_stored + 1 ELSE w_stored
    /\ IF ShouldRetry(o, w_attempt) /\ w_attempt + 1 < max_retries
       THEN /\ w_attempt' = w_attempt + 1
            /\ UNCHANGED <<w_pc, w_method, w_result>>
       ELSE LET returned == IF ShouldRetry(o, w_attempt) THEN "None" ELSE ReturnValue(o)
            IN  IF returned = "None" /\ w_method < 3
                THEN /\ w_method' = w_method + 1
                     /\ w_attempt' = 0
                     /\ UNCHANGED <<w_pc, w_result>>
                ELSE /\ w_pc' = "returned"
                     /\ w_result' = IF returned = "None" THEN "False" ELSE "True"
                     /\ UNCHANGED <<w_method, w_attempt>>
    /\ UNCHANGED w_actions

CmtNext ==
    \/ W_add_comment_to_ticket /\ UNCHANGED exceptCmt
    \/ \E o \in Outcomes, processed \in BOOLEAN : W_Attempt(o, processed) /\ UNCHANGED exceptCmt

-----------------------------------------------------------------------------
(* Threads and widgets: SearchFilterManager.search_tickets,                *)
(* TicketOperationsManager.close_ticket and the shell's load_all_tickets,  *)
(* each a UI handler that starts a daemon thread.                          *)

MaxQueued == 4

\* Worker bodies, one thread of each at a time.
Workers == {"do_search", "do_close", "load_all_tickets"}

\* A widget call made by code running in `thread`.
touch(widgets, thread) == x_touched \cup {<<w, thread>> : w \in widgets}

ThrInit ==
    /\ x_running = {}
    /\ x_after = <<>>
    /\ x_touched = {}

\* search_tickets with a non-empty search text: status message, then the
\* thread.
X_search_tickets ==
    /\ "do_search" \notin x_running
    /\ x_touched' = touch({"status"}, "ui")
    /\ x_running' = x_running \cup {"do_search"}
    /\ UNCHANGED x_after

\* do_search in its thread: update_tickets_callback and update_status are
\* called where the thread stands.
X_do_search(found) ==
    /\ "do_search" \in x_running
    /\ x_touched' = touch(IF found THEN {"tree", "status"} ELSE {"status"}, "do_search")
    /\ x_running' = x_running \ {"do_search"}
    /\ UNCHANGED x_after

\* close_ticket with a ticket selected: nothing but the thread.
X_close_ticket ==
    /\ "do_close" \notin x_running
    /\ x_running' = x_running \cup {"do_close"}
    /\ UNCHANGED <<x_after, x_touched>>

\* do_close in its thread: every branch ends in a messagebox; after a
\* successful transition refresh_callback (load_all_tickets_threaded) is
\* called from the thread as well.
X_do_close(closed) ==
    /\ "do_close" \in x_running
    /\ x_touched' = touch(IF closed THEN {"dialog", "refresh_btn", "status"}
                                    ELSE {"dialog"}, "do_close")
    /\ x_running' = (x_running \ {"do_close"})
                        \cup (IF closed THEN {"load_all_tickets"} ELSE {})
    /\ UNCHANGED x_after

\* load_all_tickets_threaded from the button or a shortcut.
X_load_all_tickets_threaded ==
    /\ "load_all_tickets" \notin x_running
    /\ x_touched' = touch({"refresh_btn", "status"}, "ui")
    /\ x_running' = x_running \cup {"load_all_tickets"}
    /\ UNCHANGED x_after

\* load_all_tickets in its thread: a failed request makes make_jira_request
\* open its error window on the spot; the table, the status bar and the
\* button are handed to root.after.
X_load_all_tickets(outcome) ==
    /\ "load_all_tickets" \in x_running
    /\ Len(x_after) + 3 <= MaxQueued
    /\ x_touched' = IF outcome = "error" THEN touch({"dialog"}, "load_all_tickets")
                    ELSE x_touched
    /\ x_after' = x_after \o (IF outcome = "issues" THEN <<"tree", "status", "refresh_btn">>
                              ELSE <<"status", "refresh_btn">>)
    /\ x_running' = x_running \ {"load_all_tickets"}

\* The UI loop runs the next queued callback.
X_RunCallback ==
    /\ x_after # <<>>
    /\ x_touched' = touch({Head(x_after)}, "ui")
    /\ x_after' = Tail(x_after)
    /\ UNCHANGED x_running

ThrNext ==
    \/ X_search_tickets /\ UNCHANGED exceptThr
    \/ \E found \in BOOLEAN : X_do_search(found) /\ UNCHANGED exceptThr
    \/ X_close_ticket /\ UNCHANGED exceptThr
    \/ \E closed \in BOOLEAN : X_do_close(closed) /\ UNCHANGED exceptThr
    \/ X_load_all_tickets_threaded /\ UNCHANGED exceptThr
    \/ \E outcome \in {"issues", "none", "error"} : X_load_all_tickets(outcome) /\ UNCHANGED exceptThr
    \/ X_RunCallback /\ UNCHANGED exceptThr

-----------------------------------------------------------------------------
(* The UI thread inside its event handlers: JiraTicketGUI_enhanced         *)
(* on_ticket_select and assign_to_me (requests through the retrying        *)
(* make_jira_request) and JiraTicketGUI.close_ticket (requests through the *)
(* baseline make_jira_request, one attempt each).                          *)

\* The requests a handler makes, in order; a handler leaves at the first
\* request that returns None, assign_to_me's three methods excepted, which
\* go on until one returns something.
Steps(handler) ==
    CASE handler = "on_ticket_select" -> <<"fetch_ticket_details">>
      [] handler = "close_ticket"     -> <<"get_transitions", "post_transition">>
      [] handler = "assign_to_me"     -> <<"myself", "method1", "method2", "method3">>
      [] OTHER                        -> <<>>

\* Only the enhanced make_jira_request has the retry loop.
Retries(handler) == handler \in {"on_ticket_select", "assign_to_me"}

\* Whether the handler goes on to its next request after this one returned.
GoesOn(handler, step, returned) ==
    /\ step < Len(Steps(handler))
    /\ CASE handler = "assign_to_me" /\ step >= 2 -> returned = "None"
         [] handler = "assign_to_me" /\ step = 1  -> returned = "json"   \* needs accountId
         [] OTHER                                 -> returned # "None"

UiInit ==
    /\ g_handler = "mainloop"
    /\ g_step = 0
    /\ g_attempt = 0
    /\ g_asleep = FALSE
    /\ g_http = 0
    /\ g_sleeps = 0

\* An event reaches a handler.  on_ticket_select finds the ticket in
\* all_tickets or filtered_tickets (cached) or calls fetch_ticket_details;
\* assign_to_me and close_ticket go straight to their first request.
G_Event(handler, cached) ==
    /\ g_handler = "mainloop"
    /\ g_http' = 0
    /\ g_sleeps' = 0
    /\ g_attempt' = 0
    /\ g_asleep' = FALSE
    /\ IF handler = "on_ticket_select" /\ cached
       THEN UNCHANGED <<g_handler, g_step>>
       ELSE /\ g_handler' = handler
            /\ g_step' = 1

\* One HTTP call of make_jira_request on the UI thread and the handling of
\* how it ended.
G_HttpAttempt(o) ==
    /\ g_handler # "mainloop"
    /\ ~g_asleep
    /\ g_http' = g_http + 1
    /\ IF Retries(g_handler) /\ ShouldRetry(o, g_attempt)
       THEN /\ g_asleep' = TRUE
            /\ UNCHANGED <<g_handler, g_step, g_attempt>>
       ELSE /\ g_attempt' = 0
            /\ g_asleep' = FALSE
            /\ IF GoesOn(g_handler, g_step, ReturnValue(o))
               THEN /\ g_step' = g_step + 1
                    /\ UNCHANGED g_handler
               ELSE /\ g_handler' = "mainloop"
                    /\ g_step' = 0
    /\ UNCHANGED g_sleeps

\* time.sleep(2); continue.
G_Sleep ==
    /\ g_asleep
    /\ g_sleeps' = g_sleeps + 1
    /\ g_asleep' = FALSE
    /\ g_attempt' = g_attempt + 1
    /\ UNCHANGED <<g_handler, g_step, g_http>>

UiNext ==
    \/ \E handler \in {"on_ticket_select", "close_ticket", "assign_to_me"}, cached \in BOOLEAN :
          G_Event(handler, cached) /\ UNCHANGED exceptUi
    \/ \E o \in Outcomes : G_HttpAttempt(o) /\ UNCHANGED exceptUi
    \/ G_Sleep /\ UNCHANGED exceptUi

-----------------------------------------------------------------------------
(* JiraTicketGUI_enhanced.load_all_tickets_threaded and load_all_tickets:  *)
(* the refresh button, the status bar and the reload threads.              *)

MaxReloads == 3

\* Where a reload comes from: the Refresh button (refresh_tickets), the
\* Ctrl+R / F5 bindings of setup_keyboard_shortcuts, or a handler that
\* reloads after its operation (create, close, assign ...).
Triggers == {"button", "shortcut", "operation"}

RelInit ==
    /\ n_refresh_btn = "normal"
    /\ n_status = "Ready"
    /\ n_threads = 0
    /\ n_after = <<>>
    /\ n_reloads = 0

\* load_all_tickets_threaded.  A disabled button does not invoke its
\* command; the bindings and the handlers call the method whatever the
\* button's state.
N_load_all_tickets_threaded(trigger) ==
    /\ n_reloads < MaxReloads
    /\ trigger = "button" => n_refresh_btn = "normal"
    /\ n_reloads' = n_reloads + 1
    /\ n_refresh_btn' = "disabled"
    /\ n_status' = "Loading tickets..."
    /\ n_threads' = n_threads + 1
    /\ UNCHANGED n_after

\* load_all_tickets in its thread, from the answer on: the table and the
\* status message are queued, and `finally` queues the button's re-enable.
N_load_all_tickets(loaded) ==
    /\ n_threads > 0
    /\ n_threads' = n_threads - 1
    /\ n_after' = n_after \o (IF loaded THEN <<"update_ticket_list", "Loaded">>
                              ELSE <<"Failed to load tickets">>)
                          \o <<"refresh_btn normal">>
    /\ UNCHANGED <<n_refresh_btn, n_status, n_reloads>>

\* The UI loop runs the next queued callback.
N_RunCallback ==
    /\ n_after # <<>>
    /\ n_after' = Tail(n_after)
    /\ n_refresh_btn' = IF Head(n_after) = "refresh_btn normal" THEN "normal" ELSE n_refresh_btn
    /\ n_status' = IF Head(n_after) \in {"Loaded", "Failed to load tickets"}
                   THEN Head(n_after) ELSE n_status
    /\ UNCHANGED <<n_threads, n_reloads>>

RelNext ==
    \/ \E trigger \in Triggers : N_load_all_tickets_threaded(trigger) /\ UNCHANGED exceptRel
    \/ \E loaded \in BOOLEAN : N_load_all_tickets(loaded) /\ UNCHANGED exceptRel
    \/ N_RunCallback /\ UNCHANGED exceptRel

-----------------------------------------------------------------------------
(* html_viewer: open_html_viewer, update_html_viewer,                      *)
(* load_comments_for_html_viewer and on_html_viewer_close.                 *)

MaxViewerUpdates == 3
MaxViewTickets == 2
ViewTickets == 1..MaxViewTickets

ViewInit ==
    /\ v_window = "None"
    /\ v_current_ticket = 0
    /\ v_comments = 0
    /\ v_threads = [t \in ViewTickets |-> 0]
    /\ v_after = <<>>
    /\ v_died = 0
    /\ v_dialogs = 0
    /\ v_updates = 0

\* open_html_viewer: a new Toplevel unless one exists.
V_open_html_viewer ==
    /\ v_window = "None"
    /\ v_window' = "open"
    /\ UNCHANGED <<v_current_ticket, v_comments, v_threads, v_after, v_died, v_dialogs, v_updates>>

\* update_html_viewer(issue) with the window open: the content is rebuilt
\* with "Loading comments..." and load_comments_for_html_viewer starts a
\* thread for the key.
V_update_html_viewer(ticket_key) ==
    /\ v_window = "open"
    /\ v_updates < MaxViewerUpdates
    /\ v_updates' = v_updates + 1
    /\ v_current_ticket' = ticket_key
    /\ v_comments' = 0
    /\ v_threads' = [v_threads EXCEPT ![ticket_key] = @ + 1]
    /\ UNCHANGED <<v_window, v_after, v_died, v_dialogs>>

\* on_html_viewer_close: destroy() and html_viewer_window = None; the
\* callbacks queued on the window go with it.
V_on_html_viewer_close ==
    /\ v_window = "open"
    /\ v_window' = "None"
    /\ v_after' = <<>>
    /\ UNCHANGED <<v_current_ticket, v_comments, v_threads, v_died, v_dialogs, v_updates>>

\* do_load in its thread, once the request has returned:
\* self.html_viewer_window.after(0, update_comments).  With the window gone
\* the attribute is None and the call raises in the thread, where nothing
\* catches it.
V_do_load(ticket_key) ==
    /\ v_threads[ticket_key] > 0
    /\ v_threads' = [v_threads EXCEPT ![ticket_key] = @ - 1]
    /\ IF v_window = "open"
       THEN /\ v_after' = Append(v_after, ticket_key)
            /\ UNCHANGED v_died
       ELSE /\ v_died' = v_died + 1
            /\ UNCHANGED v_after
    /\ UNCHANGED <<v_window, v_current_ticket, v_comments, v_dialogs, v_updates>>

\* update_comments on the UI loop: nothing unless the window exists and
\* still shows the thread's ticket.
V_update_comments ==
    /\ v_after # <<>>
    /\ v_after' = Tail(v_after)
    /\ v_comments' = IF v_window = "open" /\ v_current_ticket = Head(v_after)
                     THEN Head(v_after) ELSE v_comments
    /\ UNCHANGED <<v_window, v_current_ticket, v_threads, v_died, v_dialogs, v_updates>>

ViewNext ==
    \/ V_open_html_viewer /\ UNCHANGED exceptView
    \/ \E ticket_key \in ViewTickets : V_update_html_viewer(ticket_key) /\ UNCHANGED exceptView
    \/ V_on_html_viewer_close /\ UNCHANGED exceptView
    \/ \E ticket_key \in ViewTickets : V_do_load(ticket_key) /\ UNCHANGED exceptView
    \/ V_update_comments /\ UNCHANGED exceptView

-----------------------------------------------------------------------------
(* CommentMonitor.start_monitoring, stop_monitoring and _monitor_loop as   *)
(* threads: the flag self.monitoring and every loop started.               *)

MaxLoopCalls == 4
MaxLoopChecks == 2

\* A thread per start_monitoring call that got past the flag test.
LoopIds == 1..MaxLoopCalls

\* Positions of _monitor_loop: not started, in the baseline scan, at the
\* `while self.monitoring` test, inside time.sleep, inside
\* _check_for_new_comments, returned.
LoopInit ==
    /\ p_monitoring = FALSE
    /\ p_loop = [i \in LoopIds |-> "unborn"]
    /\ p_checks = [i \in LoopIds |-> 0]
    /\ p_calls = 0

alive == {i \in LoopIds : p_loop[i] \notin {"unborn", "returned"}}

\* start_monitoring: nothing when the flag is set; otherwise the flag is
\* set and a new thread starts on _monitor_loop.
P_start_monitoring ==
    /\ p_calls < MaxLoopCalls
    /\ p_calls' = p_calls + 1
    /\ IF p_monitoring
       THEN UNCHANGED <<p_monitoring, p_loop, p_checks>>
       ELSE /\ p_monitoring' = TRUE
            /\ p_loop' = [p_loop EXCEPT ![p_calls + 1] = "scan"]
            /\ UNCHANGED p_checks

\* stop_monitoring: the flag is cleared, nothing else.
P_stop_monitoring ==
    /\ p_calls < MaxLoopCalls
    /\ p_calls' = p_calls + 1
    /\ p_monitoring' = FALSE
    /\ UNCHANGED <<p_loop, p_checks>>

\* One step of thread i in _monitor_loop.
P_monitor_loop(i) ==
    /\ p_loop[i] \notin {"unborn", "returned"}
    /\ CASE p_loop[i] = "scan" ->
              /\ p_loop' = [p_loop EXCEPT ![i] = "while"]
              /\ UNCHANGED p_checks
         [] p_loop[i] = "while" ->
              /\ p_loop' = [p_loop EXCEPT ![i] = IF p_monitoring THEN "sleep" ELSE "returned"]
              /\ UNCHANGED p_checks
         [] p_loop[i] = "sleep" ->
              IF p_monitoring
              THEN /\ p_checks[i] < MaxLoopChecks
                   /\ p_loop' = [p_loop EXCEPT ![i] = "check"]
                   /\ p_checks' = [p_checks EXCEPT ![i] = @ + 1]
              ELSE /\ p_loop' = [p_loop EXCEPT ![i] = "while"]
                   /\ UNCHANGED p_checks
         [] p_loop[i] = "check" ->
              /\ p_loop' = [p_loop EXCEPT ![i] = "while"]
              /\ UNCHANGED p_checks
    /\ UNCHANGED <<p_monitoring, p_calls>>

LoopNext ==
    \/ P_start_monitoring /\ UNCHANGED exceptLoop
    \/ P_stop_monitoring /\ UNCHANGED exceptLoop
    \/ \E i \in LoopIds : P_monitor_loop(i) /\ UNCHANGED exceptLoop

-----------------------------------------------------------------------------
(* ReminderManager.load_reminders: a session starts on the reminders file. *)

\* What the history r_times holds for a list read back from the file.
times_of(reminders) ==
    [i \in 1..Len(reminders) |->
        [due |-> hour_fromisoformat(reminders[i].due_date),
         snoozed |-> IF reminders[i].snoozed_until = None THEN 0 - 1
                     ELSE hour_fromisoformat(reminders[i].snoozed_until)]]

\* load_reminders, as __init__ calls it: the parsed file, or [] when the
\* file is missing or when reading or parsing it raises.
load_reminders(file, read_ok) == IF read_ok THEN file ELSE <<>>

R_load_reminders(read_ok) ==
    /\ r_reminders' = load_reminders(r_file, read_ok)
    /\ r_times' = times_of(r_reminders')
    /\ r_fresh' = FALSE
    /\ UNCHANGED <<r_now, r_file, r_due>>

RemFileNext ==
    \/ \E read_ok \in BOOLEAN : R_load_reminders(read_ok) /\ UNCHANGED exceptRem
    \/ \E offset \in DueOffsets, write_ok \in BOOLEAN :
          R_add_reminder(offset, write_ok) /\ UNCHANGED exceptRem
    \/ \E id \in 1..MaxReminders, write_ok \in BOOLEAN :
          R_complete_reminder(id, write_ok) /\ UNCHANGED exceptRem
    \/ \E id \in 1..MaxReminders, write_ok \in BOOLEAN :
          R_snooze_reminder(id, write_ok) /\ UNCHANGED exceptRem

-----------------------------------------------------------------------------
Init == HttpInit /\ BaseInit /\ EnhInit /\ TransInit /\ KeyInit /\ LicInit /\ MonInit /\ RemInit /\ AsgInit /\ CrtInit /\ QmInit /\ SfInit /\ FailInit /\ SelInit /\ CmtInit /\ ThrInit /\ UiInit /\ RelInit /\ ViewInit /\ LoopInit

SpecHttp == Init /\ [][HttpNext]_vars

SpecBaseline == Init /\ [][BaseNext]_vars

SpecEnhanced == Init /\ [][EnhNext]_vars

SpecTransitions == Init /\ [][TransNext]_vars

SpecKey == Init /\ [][KeyNext]_vars

SpecLicense == Init /\ [][LicNext]_vars

SpecMonitor == Init /\ [][MonNext]_vars

SpecReminders == Init /\ [][RemNext]_vars

SpecAssign == Init /\ [][AsgNext]_vars

SpecCreate == Init /\ [][CrtNext]_vars

SpecMentions == Init /\ [][QmNext]_vars

SpecSearchFilter == Init /\ [][SfNext]_vars

SpecFailures == Init /\ [][FailNext]_vars

SpecSelect == Init /\ [][SelNext]_vars

SpecComment == Init /\ [][CmtNext]_vars

SpecThreads == Init /\ [][ThrNext]_vars

SpecUiLoop == Init /\ [][UiNext]_vars

SpecReload == Init /\ [][RelNext]_vars

SpecViewer == Init /\ [][ViewNext]_vars

SpecMonitorLoop == Init /\ [][LoopNext]_vars

SpecReminderFile == Init /\ [][RemFileNext]_vars

-----------------------------------------------------------------------------
(* Properties of make_jira_request                                         *)

Retryable(o) == IsTimeout(o) \/ Is5xx(o)
Fatal(o)     == Is4xx(o) \/ IsConnection(o)

\* C1: one request makes at most 3 HTTP attempts and has returned once the
\* third has ended; every attempt but the last ended in a timeout or a 5xx
\* response and was followed by exactly one sleep; there is no 4th attempt.
C1_AtMostThreeAttempts ==
    /\ http_calls <= 3
    /\ http_calls = Len(outcomes)
    /\ \A i \in 1..(Len(outcomes) - 1) : Retryable(outcomes[i])
    /\ (http_calls = 3 => req_pc = "returned")
    /\ (req_pc = "attempt" => sleeps = http_calls)
    /\ (req_pc = "sleep" => Retryable(outcomes[Len(outcomes)]) /\ sleeps = http_calls - 1)
    /\ (req_pc = "returned" /\ http_calls > 0 => sleeps = http_calls - 1)

\* A request that went through two sleeps and returned after its third attempt.
C1_Witness ==
    req_pc = "returned" /\ http_calls = 3 /\ sleeps = 2 /\ IsTimeout(outcomes[3])

\* C2 as stated: a request one of whose attempts ends in a 4xx response or a
\* non-timeout connection failure makes exactly one HTTP attempt, never
\* sleeps, and returns None.
C2_ExactlyOneAttempt ==
    \A i \in 1..Len(outcomes) :
        Fatal(outcomes[i]) =>
            http_calls = 1 /\ sleeps = 0 /\ req_pc = "returned" /\ result = "None"

\* C2 amended: the attempt that ends in a 4xx response or a non-timeout
\* connection failure is the last one: the request returns None at once, with
\* no sleep after it; it is the only attempt when no timeout or 5xx preceded.
C2_FailsImmediately ==
    \A i \in 1..Len(outcomes) :
        Fatal(outcomes[i]) =>
            /\ i = Len(outcomes)
            /\ http_calls = i
            /\ sleeps = i - 1
            /\ req_pc = "returned"
            /\ result = "None"
            /\ error_dialog = "API Error"

\* A 404 on the first attempt: one call, no sleep, None returned.
C2_Witness ==
    /\ req_pc = "returned" /\ Len(outcomes) = 1 /\ Is4xx(outcomes[1])
    /\ http_calls = 1 /\ sleeps = 0 /\ result = "None"

\* C3 (as stated): in the baseline shell, after any sequence of ownership,
\* issue-type and hide-completed filter changes following a reload, the rows
\* shown are exactly the tickets of the reloaded list that satisfy the three
\* predicates currently selected.
C3_RowsDerivedFromLoadedList ==
    b_last = "filter" =>
        b_tree = SelectSeq(b_loaded,
                           LAMBDA i : B_Keep(i, b_ticket_filter, b_issue_type,
                                             b_hide_completed))

\* C4 (as stated): in the enhanced shell, once a free-text search has replaced
\* the rows, submitting the placeholder or an empty query shows exactly the
\* current filters applied to the list loaded before the search.
C4_PlaceholderRestoresLoadedView ==
    (e_last = "restore" /\ e_searched) =>
        e_tree = SelectSeq(e_loaded,
                           LAMBDA i : E_Keep(i, e_ticket_filter, e_hide_completed))

\* C5 (as stated): whenever the table selection is empty, every action button
\* is disabled, the detail pane is cleared and no current ticket is held; the
\* buttons are enabled only while a row is selected.
C5_NoSelectionState ==
    /\ e_selection = 0 =>
           ~e_actions_enabled /\ e_details_text = 0 /\ e_current_ticket = 0
    /\ e_actions_enabled => e_selection # 0

claim_transitions == <<1, 2, 3>>   \* "Start Progress", "Resolve Issue", "Close Issue"

\* C6 (as stated): in the baseline shell, given the transitions "Start
\* Progress", "Resolve Issue", "Close Issue", close sends "Close Issue",
\* resolve sends "Resolve Issue", and reopen sends nothing and reports that no
\* matching transition is available.
C6_SelectsByActionName ==
    (t_shell = "baseline" /\ t_get_ok /\ t_transitions = claim_transitions) =>
        /\ t_action = "close" => t_posted = 3
        /\ t_action = "resolve" => t_posted = 2
        /\ t_action = "open" => t_posted = 0 /\ t_dialog = "no_match"

\* C6 (amended): given those transitions, close matches "Resolve Issue" and
\* "Close Issue", asks the operator and on "yes" sends the first match,
\* "Resolve Issue" (on any other answer nothing is sent and nothing is
\* reported); resolve sends "Resolve Issue" without asking; reopen matches
\* "Start Progress" through the keyword 'start' and sends it.
C6_SelectsFirstKeywordMatch ==
    (t_shell = "baseline" /\ t_get_ok /\ t_transitions = claim_transitions) =>
        /\ t_action = "close" =>
               /\ t_asked
               /\ t_choice = "yes" => t_posted = 2
               /\ t_choice # "yes" => t_posted = 0 /\ t_dialog = "none"
        /\ t_action = "resolve" => ~t_asked /\ t_posted = 2
        /\ t_action = "open" =>
               ~t_asked /\ t_posted = 1 /\ t_dialog \in {"success", "post_failed"}

C6_Witness ==
    /\ t_shell = "baseline" /\ t_get_ok /\ t_transitions = claim_transitions
    /\ t_action = "close" /\ t_asked /\ t_choice = "yes" /\ t_posted = 2

\* C7 (as stated): when none of the available transitions matches the
\* action's keywords, no transition request is sent and the operator is told
\* so with the list of the available transitions.
C7_NoMatchIsReported ==
    (/\ t_action # "none" /\ t_get_ok
     /\ Candidates(t_shell, t_action, t_transitions) = <<>>) =>
        t_posted = 0 /\ t_dialog = "no_match" /\ t_options = t_transitions

-----------------------------------------------------------------------------
(* Properties of license keys                                              *)

C9_ValidOnEveryMachine ==
    (k_stage = "validated" /\ k_key = k_issued) => k_result.valid

-----------------------------------------------------------------------------
(* Properties of the trial                                                 *)

status_now(cls, license, trial_started, today) ==
    check_license_status(cls, TRUE, license, trial_started, 1, today).status

\* C11 (as stated): the activation dialog gives way to a usable main window
\* only by activating a valid key or starting a trial; dismissed in any
\* other way, the application exits, so the main window is never left
\* usable with a status other than trial_active or licensed.
C11_MainWindowOnlyWhenLicensed ==
    [][(/\ l_screen = "dialog" /\ l_screen' = "main"
        /\ l_message' \notin {"License activated successfully!", "Trial Started"})
       => status_now(l_class', l_license', l_trial_started', l_today')
              \in {"trial_active", "licensed"}]_vars

\* The status the classification of C12 gives a vault state: validation is
\* the result of validating the saved license.
classified(license, trial_started, validation) ==
    IF license = <<>> THEN IF trial_started THEN "trial_expired" ELSE "no_license"
    ELSE IF ~validation.valid THEN "invalid"
    ELSE IF get_item(validation.data, s_type)[2] = <<"str", s_trial>> THEN "trial_active"
    ELSE "licensed"

\* C12 (as stated): with the vault reachable, check_license_status of the
\* class behind self.license_manager reports no_license when nothing is
\* saved and no trial was started, trial_expired when nothing is saved and
\* the trial marker is present, invalid when the saved license fails
\* validation, trial_active when it validates and its type is trial, and
\* licensed when it validates with another type.
C12_StatusClassification ==
    status_now(l_class, l_license, l_trial_started, l_today)
        = classified(l_license, l_trial_started,
                     validate_license_key(l_class, l_license, 1, l_today))

-----------------------------------------------------------------------------
(* Properties of the features of a license                                 *)

\* The "data" of a key text: base64, UTF-8 and JSON decoded.
key_data(key) ==
    get_item(json_loads(utf8_decode(a2b_base64(key).v, 1, <<>>).v).v, s_data)[2]

\* The feature table of the licensing section: the four ticket features for
\* every type, then export_data, api_access, priority_support, max_users.
FeatureRow(export, api, priority, users) ==
    << <<<<99,114,101,97,116,101,95,116,105,99,107,101,116,115>>, <<"bool", TRUE>>>>,
       <<<<99,111,109,109,101,110,116,95,116,105,99,107,101,116,115>>, <<"bool", TRUE>>>>,
       <<<<97,115,115,105,103,110,95,116,105,99,107,101,116,115>>, <<"bool", TRUE>>>>,
       <<<<115,101,97,114,99,104,95,116,105,99,107,101,116,115>>, <<"bool", TRUE>>>>,
       <<<<101,120,112,111,114,116,95,100,97,116,97>>, <<"bool", export>>>>,
       <<<<97,112,105,95,97,99,99,101,115,115>>, <<"bool", api>>>>,
       <<<<112,114,105,111,114,105,116,121,95,115,117,112,112,111,114,116>>,
         <<"bool", priority>>>>,
       <<<<109,97,120,95,117,115,101,114,115>>, <<"int", users>>>> >>

HasTableFeatures(data) ==
    LET type == get_item(data, s_type)[2]
        features == get_item(data, s_features)[2]
    IN  \/ type = <<"str", s_trial>>
           /\ features = <<"dict", FeatureRow(FALSE, FALSE, FALSE, 1)>>
        \/ type = <<"str", s_standard>>
           /\ features = <<"dict", FeatureRow(TRUE, TRUE, FALSE, 5)>>
        \/ type = <<"str", s_premium>>
           /\ features = <<"dict", FeatureRow(TRUE, TRUE, TRUE, 0 - 1)>>

\* C13: every license the generator made (the trial licenses start_trial
\* saves, the standard and premium licenses the administrator issued and
\* the operator activated) carries one of the three types and exactly the
\* features the table gives that type: max_users 1 for trial, 5 for
\* standard, -1 for premium.
C13_FeaturesFollowType ==
    l_license # <<>> => HasTableFeatures(key_data(l_license))

\* A premium license was generated, activated and saved.
C13_Witness ==
    /\ l_license # <<>>
    /\ get_item(key_data(l_license), s_type)[2] = <<"str", s_premium>>
    /\ get_item(get_item(key_data(l_license), s_features)[2],
                <<109,97,120,95,117,115,101,114,115>>)[2] = <<"int", 0 - 1>>

-----------------------------------------------------------------------------
(* Properties of the comment monitor                                       *)

\* Every request of the last scan was answered with the comments the
\* backend held.
ScanFetchedAll == \A t \in DOMAIN m_seen : m_seen[t] = m_at_scan[t]

\* Since the last scan exactly one comment was appended to the cached
\* ticket t, and nothing else changed on the backend or in the cache.
OneAppended(t) ==
    /\ m_all_tickets = m_scanned
    /\ t \in Range(m_all_tickets)
    /\ Len(m_server[t]) = Len(m_at_scan[t]) + 1
    /\ SubSeq(m_server[t], 1, Len(m_at_scan[t])) = m_at_scan[t]
    /\ \A u \in MonTickets \ {t} : m_server[u] = m_at_scan[u]

IsBaselineStep == m_scans = 0 /\ m_scans' = 1

IsFirstCheckAfterOneAppend(t) ==
    /\ m_scans = 1 /\ m_scans' = 2
    /\ ScanFetchedAll /\ ScanFetchedAll'
    /\ OneAppended(t)

\* C14: the baseline scan raises no notification and adds nothing to the
\* pending list; and when exactly one comment was appended to one cached
\* ticket between the baseline and the first check (whether or not the
\* ticket had comments at the baseline), that check reports exactly one
\* entry, naming the ticket and the author of its newest comment.
C14_BaselineSilentThenOneReported ==
    [][/\ IsBaselineStep =>
             m_found' = <<>> /\ m_listing' = <<>> /\ m_new_comments' = <<>>
       /\ \A t \in MonTickets :
             IsFirstCheckAfterOneAppend(t) =>
                 LET newest == m_server[t][Len(m_server[t])]
                 IN  /\ m_found' = <<[ticket_key |-> t, comment |-> newest]>>
                     /\ m_listing' = <<[ticket_key |-> t, author |-> newest.author]>>
      ]_vars

\* known_comments as a total map: a ticket without an entry has no known ids.
known_ids(t) == IF t \in DOMAIN m_known THEN m_known[t] ELSE <<>>

-----------------------------------------------------------------------------
(* Properties of the reminder manager                                      *)

\* Reminder i is due by the hours it was given, not by its texts.
DueByTheClock(i) ==
    /\ ~r_reminders[i].completed
    /\ r_times[i].snoozed = 0 - 1 \/ r_times[i].snoozed <= r_now
    /\ r_times[i].due <= r_now

-----------------------------------------------------------------------------
(* Properties of assign_to_me                                              *)

AllThree == <<myself, method1, method2, method3>>

\* The assignment requests sent so far, and what they returned.
assign_results == SubSeq(a_results, 2, Len(a_results))

AllThreeFailed ==
    Len(a_sent) = 4 /\ \A i \in 2..4 : a_results[i] = "None"

\* The windows a failed request raises by itself.
request_windows == SelectSeq(a_dialogs, LAMBDA title : title \in FailureTitles)

\* A step of the three methods patches nothing when its request returned
\* None, and otherwise ends the handler with the selected ticket patched.
PatchOnlyOnSuccess ==
    a_pc \in {"method1", "method2", "method3"} =>
        IF a_results'[Len(a_results')] = "None"
        THEN a_cached' = a_cached /\ a_rows' = a_rows /\ a_reloads' = a_reloads
        ELSE /\ a_pc' = "done"
             /\ a_cached'[a_current_ticket] = "Me"
             /\ a_rows'[a_current_ticket] \in {"Me", "no row"}
             /\ a_reloads' = 1
             /\ \A t \in AsgTickets \ {a_current_ticket} :
                   a_cached'[t] = a_cached[t] /\ a_rows'[t] = a_rows[t]

\* C17 as stated: the request shapes go out in sequence, none after a
\* success, the cached ticket and the row are patched only after a
\* success, and a failure is reported only when all three have failed.
C17_NoFailureShownBeforeAllThreeFailed ==
    (a_pc \in {"method1", "method2", "method3", "done"} /\ Len(a_sent) >= 2) =>
        /\ a_sent = SubSeq(AllThree, 1, Len(a_sent))
        /\ \A i \in 2..(Len(a_sent) - 1) : a_results[i] = "None"
        /\ a_dialogs # <<>> => AllThreeFailed

\* C17: the request shapes go out in the order method 1, 2, 3, each only
\* after every earlier one returned None, so none is sent after a success;
\* "Failed to assign ticket" is shown exactly when all three returned None,
\* while every request that returned None has already raised its own error
\* window; and the cached assignee and the row change only in the step in
\* which a request succeeded, which ends the handler.
C17_SequenceStopsAtFirstSuccess ==
    /\ []((a_pc \in {"method1", "method2", "method3", "done"} /\ Len(a_sent) >= 2) =>
            /\ a_sent = SubSeq(AllThree, 1, Len(a_sent))
            /\ a_results[1] = "json"
            /\ \A i \in 2..(Len(a_sent) - 1) : a_results[i] = "None"
            /\ (a_pc # "done") => a_results[Len(a_sent)] = "None"
            /\ ("Failed to assign ticket. Check the debug output for details."
                    \in Range(a_dialogs)) <=> (a_pc = "done" /\ AllThreeFailed)
            /\ Len(request_windows)
                   = Cardinality({i \in 2..Len(a_sent) : a_results[i] = "None"}))
    /\ [][PatchOnlyOnSuccess]_vars

\* Method 1 failed and raised its window, method 2 succeeded, no third
\* request went out and the ticket and its row were patched.
C17_Witness ==
    /\ a_pc = "done"
    /\ Len(a_sent) = 3
    /\ a_results[2] = "None" /\ a_results[3] # "None"
    /\ Len(a_dialogs) = 1
    /\ a_cached[a_current_ticket] = "Me" /\ a_rows[a_current_ticket] = "Me"

-----------------------------------------------------------------------------
(* Properties of create_ticket                                             *)

\* The POST issue requests of the click, and the comment requests.
creations == SelectSeq(c_sent, LAMBDA r : r.endpoint = "issue")
comments_sent == SelectSeq(c_sent, LAMBDA r : r.endpoint = "issue/KEY/comment")

\* The click created a ticket whose fields lack the description entered.
CreatedWithoutDescription ==
    /\ Len(creations) = 3
    /\ c_results[4] # "None"
    /\ c_description # <<>>

CreatedInOrder ==
    /\ [i \in 1..Len(creations) |-> creations[i].format]
           = SubSeq(<<"adf", "plain", "absent">>, 1, Len(creations))
    /\ \A i \in 1..Len(creations) : creations[i].text \in {c_description, <<>>}
    /\ \A i \in 1..(Len(creations) - 1) : c_results[i + 1] = "None"
    /\ Len(comments_sent) <= 1

-----------------------------------------------------------------------------
(* Properties of the quick-mention list                                    *)

\* How often the pair occurs in a list, whatever Python type holds it.
occurrences(x, list) ==
    Cardinality({i \in 1..Len(list) : list[i].name = x.name /\ list[i].email = x.email})

\* C19: no pair occurs twice in the quick-mention list or in its file,
\* also after a save and a reload in a fresh manager; and an Add in the
\* management dialog of a pair the list already holds is rejected with
\* "This mention already exists".
C19_SavedPairStaysUnique ==
    /\ \A i \in 1..Len(q_mentions) : occurrences(q_mentions[i], q_mentions) = 1
    /\ \A i \in 1..Len(q_file.content) :
          occurrences(json_load(q_file.content)[i], json_load(q_file.content)) = 1
    /\ q_readd => q_message = "This mention already exists"

\* C20: once no dialog is open, and the list has been changed since it was
\* loaded, the quick-mentions file holds exactly the in-memory list.
C20_FileHoldsListOnceDialogsClosed ==
    (q_dialog = "none" /\ q_mutated) =>
        q_file.exists /\ q_file.content = json_dump(q_mentions)

-----------------------------------------------------------------------------
(* Properties of the modular filter                                        *)

\* C21: after filter_tickets ran with the hide-completed toggle enabled
\* (and an ownership filter other than All Open), no ticket whose
\* lowercased status name contains done, closed, resolved, complete,
\* completed or finished has a row.
C21_HideCompletedDropsBySubstring ==
    (s_last = "filter" /\ s_hide_completed /\ s_ticket_filter # "All Open") =>
        \A k \in 1..Len(s_tree) : ~is_completed[s_tree[k]]

-----------------------------------------------------------------------------
(* Properties of the failure paths                                         *)

ErrorTitles == {"API Error", "Timeout Error", "Error"}

\* C22: a handler in which an upload, a quick-mention save or a license
\* save failed opened at least one error dialog, and did not show Success
\* with nothing else.
C22_EveryFailureIsShown ==
    f_failed # {} =>
        /\ \E k \in 1..Len(f_dialogs) : f_dialogs[k] \in ErrorTitles
        /\ f_dialogs # <<"Success">>

-----------------------------------------------------------------------------
(* Properties of the detail pane                                           *)

\* C23: once every comment fetch has returned and every queued update has
\* run, the details and the comments shown are those of the ticket held as
\* current_ticket, the last one selected.
C23_PaneShowsCurrentTicket ==
    (d_current_ticket # 0 /\ (\A t \in SelTickets : d_threads[t] = 0) /\ d_after = <<>>) =>
        /\ d_details = d_current_ticket
        /\ d_comments = d_current_ticket

-----------------------------------------------------------------------------
(* Properties of comment posting                                           *)

\* C24: one operator action that adds a comment leaves at most one comment
\* on the backend, whatever way each attempt ends.
C24_AtMostOneCommentPerAction ==
    w_stored <= 1

-----------------------------------------------------------------------------
(* Properties of the threads                                               *)

\* C25: every mutation of the table, the status bar or the refresh button,
\* and every dialog, is made by the UI thread.
C25_WidgetsTouchedByUiThreadOnly ==
    \A t \in x_touched : t[2] = "ui"

-----------------------------------------------------------------------------
(* Properties of the UI thread                                             *)

\* C26: no event handler makes an HTTP request or sleeps between retries
\* on the UI thread.
C26_NoNetworkOnUiThread ==
    /\ g_http = 0
    /\ g_sleeps = 0
    /\ ~g_asleep

-----------------------------------------------------------------------------
(* Properties of the refresh button                                        *)

\* C27: while any reload is in flight the refresh button is disabled.
C27_DisabledWhileAnyReloadInFlight ==
    n_threads > 0 => n_refresh_btn = "disabled"

-----------------------------------------------------------------------------
(* Properties of the viewer's workers                                      *)

\* C28: no worker thread ends with an uncaught exception, also when its
\* answer arrives after the viewer window was closed.
C28_NoWorkerDiesUncaught ==
    v_died = 0

-----------------------------------------------------------------------------
(* Properties of the monitor's threads                                     *)

\* C29: under any sequence of start_monitoring and stop_monitoring calls at
\* most one polling loop is alive.
C29_AtMostOnePollingLoop ==
    Cardinality(alive) <= 1

-----------------------------------------------------------------------------
(* Properties of the reminders file                                        *)

\* Every record of the file before the step is in the file after it, told
\* by its id and its due date (completing and snoozing change neither).
RecordsKept ==
    \A i \in 1..Len(r_file) :
        \E j \in 1..Len(r_file') :
            /\ r_file'[j].id = r_file[i].id
            /\ r_file'[j].due_date = r_file[i].due_date

\* C30: no load, add, snooze or complete, a load that fails to read the
\* file included, drops a reminder record from the file.
C30_NoPersistedReminderDropped == [][RecordsKept]_vars

=============================================================================
